---- MODULE Spec2Model ----
(***************************************************************************)
(* Taskflow: the task store and the six task tools of the chat agent       *)
(* (backend/src/tools/*.py) together with the REST task endpoints          *)
(* (backend/src/api/tasks.py), modelled over one shared "tasks" table.     *)
(***************************************************************************)
EXTENDS Integers, Sequences, FiniteSets, TLC

(* ---------------------------------------------------------------------- *)
(* Bounds of the model                                                     *)
(* ---------------------------------------------------------------------- *)
MaxId == 2          \* primary keys the store hands out in Spec: 1..MaxId
MaxClock == 2       \* datetime.utcnow() ranges over 0..MaxClock in SpecFields
MaxWorkers == 2     \* calls that overlap in SpecCreates

(* Program constants *)
MAX_TITLE == 200
MAX_DESCRIPTION == 2000

Users == {1, 2}

(* ---------------------------------------------------------------------- *)
(* Strings.  A str is modelled by its shape: lead whitespace characters,   *)
(* then core characters of which the first and last are not whitespace,    *)
(* then trail whitespace characters.  A string of whitespace only has      *)
(* core = 0 and trail = 0.                                                 *)
(* ---------------------------------------------------------------------- *)
None == [none |-> TRUE]
Str(l, c, t) == [lead |-> l, core |-> c, trail |-> t]
len(s) == s.lead + s.core + s.trail
strip(s) == Str(0, s.core, 0)
Falsy(s) == s = None \/ len(s) = 0      \* Python's "not s"

Unset == [unset |-> TRUE]               \* a field absent from a request body
Bool(b) == [bool |-> b]                 \* a boolean field of a request body

(* ---------------------------------------------------------------------- *)
(* State                                                                   *)
(* ---------------------------------------------------------------------- *)
VARIABLES
    tasks,      \* the tasks table: id -> row
    creator,    \* history: id -> user id of the context that created the row
    now,        \* the last value datetime.utcnow() returned
    last,       \* the last call: operation, caller, arguments, result
    conversations,  \* the conversations table: id -> row
    messages,       \* the messages table: id -> row
    request,        \* the chat request being served, or the last one served
    turn,           \* the Orchestrator's position in process_message
    workers,        \* calls running side by side: worker -> its position
    buckets         \* the rate limiter's buckets: user id -> token bucket

taskVars == <<tasks, creator, now, last>>
chatVars == <<conversations, messages, request, turn>>
vars ==
    <<tasks, creator, now, last, conversations, messages, request, turn,
      workers, buckets>>

Task(title, description, completed, user_id, created_at, updated_at) ==
    [ title |-> title, description |-> description, completed |-> completed,
      user_id |-> user_id, created_at |-> created_at,
      updated_at |-> updated_at ]

isoformat(ts) == <<"iso", ts>>

(* The "task" object every tool echoes *)
TaskDict(id, task) ==
    [ id |-> id, title |-> task.title, description |-> task.description,
      completed |-> task.completed,
      created_at |-> isoformat(task.created_at),
      updated_at |-> isoformat(task.updated_at) ]

ErrorResult(msg) == [status |-> "error", error |-> msg]

(* select(Task).where(Task.id == task_id, Task.user_id == ctx.user_id).first() *)
SelectOwned(store, user_id, task_id) ==
    IF task_id \in DOMAIN store /\ store[task_id].user_id = user_id
    THEN store[task_id] ELSE None

Put(store, id, row) == [i \in DOMAIN store \cup {id} |->
                            IF i = id THEN row ELSE store[i]]
Remove(store, id) == [i \in DOMAIN store \ {id} |-> store[i]]

(* ---------------------------------------------------------------------- *)
(* The tools.  Each is an operator from the store, the context's user id,  *)
(* the arguments and the clock readings to the result and the new store.   *)
(* ---------------------------------------------------------------------- *)
Outcome(result, store) == [result |-> result, tasks |-> store]

(* Mutant: the owner is a fixed account instead of the context's user. *)
create_task_internal_fixed_owner(store, user_id, title, description, new_id, t1, t2) ==
    IF Falsy(title) \/ len(strip(title)) = 0
    THEN Outcome(ErrorResult("Title is required"), store)
    ELSE IF len(strip(title)) > MAX_TITLE
    THEN Outcome(ErrorResult("Title exceeds 200 characters"), store)
    ELSE IF ~Falsy(description) /\ len(description) > MAX_DESCRIPTION
    THEN Outcome(ErrorResult("Description exceeds 2000 characters"), store)
    ELSE LET task == Task(strip(title),
                          IF Falsy(description) THEN None ELSE description,
                          FALSE, 1, t1, t2)
         IN  Outcome([status |-> "success", task |-> TaskDict(new_id, task)],
                     Put(store, new_id, task))

(* Mutant: the length of the title is checked before it is trimmed. *)
create_task_internal_raw_length(store, user_id, title, description, new_id, t1, t2) ==
    IF Falsy(title) \/ len(strip(title)) = 0
    THEN Outcome(ErrorResult("Title is required"), store)
    ELSE IF len(title) > MAX_TITLE
    THEN Outcome(ErrorResult("Title exceeds 200 characters"), store)
    ELSE IF ~Falsy(description) /\ len(description) > MAX_DESCRIPTION
    THEN Outcome(ErrorResult("Description exceeds 2000 characters"), store)
    ELSE LET task == Task(strip(title),
                          IF Falsy(description) THEN None ELSE description,
                          FALSE, user_id, t1, t2)
         IN  Outcome([status |-> "success", task |-> TaskDict(new_id, task)],
                     Put(store, new_id, task))

create_task_internal(store, user_id, title, description, new_id, t1, t2) ==
    IF Falsy(title) \/ len(strip(title)) = 0
    THEN Outcome(ErrorResult("Title is required"), store)
    ELSE IF len(strip(title)) > MAX_TITLE
    THEN Outcome(ErrorResult("Title exceeds 200 characters"), store)
    ELSE IF ~Falsy(description) /\ len(description) > MAX_DESCRIPTION
    THEN Outcome(ErrorResult("Description exceeds 2000 characters"), store)
    ELSE LET task == Task(strip(title),
                          IF Falsy(description) THEN None ELSE description,
                          FALSE, user_id, t1, t2)
         IN  Outcome([status |-> "success", task |-> TaskDict(new_id, task)],
                     Put(store, new_id, task))

(* Mutant: a row of another user is reported as forbidden, not as missing. *)
get_task_internal_forbidden(store, user_id, task_id) ==
    IF task_id <= 0
    THEN Outcome(ErrorResult("Invalid task ID"), store)
    ELSE IF task_id \notin DOMAIN store
    THEN Outcome(ErrorResult("Task not found"), store)
    ELSE IF store[task_id].user_id # user_id
    THEN Outcome(ErrorResult("Access denied"), store)
    ELSE Outcome([status |-> "success",
                  task |-> TaskDict(task_id, store[task_id])], store)

get_task_internal(store, user_id, task_id) ==
    IF task_id <= 0
    THEN Outcome(ErrorResult("Invalid task ID"), store)
    ELSE LET task == SelectOwned(store, user_id, task_id)
         IN  IF task = None
             THEN Outcome(ErrorResult("Task not found"), store)
             ELSE Outcome([status |-> "success",
                           task |-> TaskDict(task_id, task)], store)

(* Mutant: the query has no where clause on the user. *)
list_tasks_internal_unscoped(store, user_id) ==
    LET ids == DOMAIN store
    IN  Outcome([ tasks |-> {TaskDict(i, store[i]) : i \in ids},
                  total |-> Cardinality(ids),
                  completed_count |->
                      Cardinality({i \in ids : store[i].completed}),
                  pending_count |->
                      Cardinality({i \in ids : ~store[i].completed}) ],
                store)

list_tasks_internal(store, user_id) ==
    LET ids == {i \in DOMAIN store : store[i].user_id = user_id}
    IN  Outcome([ tasks |-> {TaskDict(i, store[i]) : i \in ids},
                  total |-> Cardinality(ids),
                  completed_count |->
                      Cardinality({i \in ids : store[i].completed}),
                  pending_count |->
                      Cardinality({i \in ids : ~store[i].completed}) ],
                store)

(* Mutant: the check that some field is supplied is missing. *)
update_task_internal_no_field_check(store, user_id, task_id, title, description, t) ==
    IF title # None /\ len(strip(title)) = 0
    THEN Outcome(ErrorResult("Title cannot be empty"), store)
    ELSE IF title # None /\ len(strip(title)) > MAX_TITLE
    THEN Outcome(ErrorResult("Title exceeds 200 characters"), store)
    ELSE IF description # None /\ len(description) > MAX_DESCRIPTION
    THEN Outcome(ErrorResult("Description exceeds 2000 characters"), store)
    ELSE LET task == SelectOwned(store, user_id, task_id)
         IN  IF task = None
             THEN Outcome(ErrorResult("Task not found"), store)
             ELSE LET new == [task EXCEPT
                         !.title = IF title # None THEN strip(title) ELSE @,
                         !.description =
                             IF description # None THEN description ELSE @,
                         !.updated_at = t]
                  IN  Outcome([status |-> "success",
                               task |-> TaskDict(task_id, new)],
                              Put(store, task_id, new))

(* Mutant: the description is assigned even when it was not supplied. *)
update_task_internal_clobber(store, user_id, task_id, title, description, t) ==
    IF title = None /\ description = None
    THEN Outcome(ErrorResult("No fields provided to update"), store)
    ELSE IF title # None /\ len(strip(title)) = 0
    THEN Outcome(ErrorResult("Title cannot be empty"), store)
    ELSE IF title # None /\ len(strip(title)) > MAX_TITLE
    THEN Outcome(ErrorResult("Title exceeds 200 characters"), store)
    ELSE IF description # None /\ len(description) > MAX_DESCRIPTION
    THEN Outcome(ErrorResult("Description exceeds 2000 characters"), store)
    ELSE LET task == SelectOwned(store, user_id, task_id)
         IN  IF task = None
             THEN Outcome(ErrorResult("Task not found"), store)
             ELSE LET new == [task EXCEPT
                         !.title = IF title # None THEN strip(title) ELSE @,
                         !.description = description,
                         !.updated_at = t]
                  IN  Outcome([status |-> "success",
                               task |-> TaskDict(task_id, new)],
                              Put(store, task_id, new))

update_task_internal(store, user_id, task_id, title, description, t) ==
    IF title = None /\ description = None
    THEN Outcome(ErrorResult("No fields provided to update"), store)
    ELSE IF title # None /\ len(strip(title)) = 0
    THEN Outcome(ErrorResult("Title cannot be empty"), store)
    ELSE IF title # None /\ len(strip(title)) > MAX_TITLE
    THEN Outcome(ErrorResult("Title exceeds 200 characters"), store)
    ELSE IF description # None /\ len(description) > MAX_DESCRIPTION
    THEN Outcome(ErrorResult("Description exceeds 2000 characters"), store)
    ELSE LET task == SelectOwned(store, user_id, task_id)
         IN  IF task = None
             THEN Outcome(ErrorResult("Task not found"), store)
             ELSE LET new == [task EXCEPT
                         !.title = IF title # None THEN strip(title) ELSE @,
                         !.description =
                             IF description # None THEN description ELSE @,
                         !.updated_at = t]
                  IN  Outcome([status |-> "success",
                               task |-> TaskDict(task_id, new)],
                              Put(store, task_id, new))

(* Mutant: the flag is set to true instead of inverted. *)
mark_complete_internal_set(store, user_id, task_id, t) ==
    LET task == SelectOwned(store, user_id, task_id)
    IN  IF task = None
        THEN Outcome(ErrorResult("Task not found"), store)
        ELSE LET new == [task EXCEPT !.completed = TRUE, !.updated_at = t]
             IN  Outcome([status |-> "success",
                          action |-> IF new.completed THEN "marked_complete"
                                     ELSE "marked_incomplete",
                          task |-> TaskDict(task_id, new)],
                         Put(store, task_id, new))

(* Mutant: the inverted flag is echoed but only the timestamp is saved. *)
mark_complete_internal_unsaved(store, user_id, task_id, t) ==
    LET task == SelectOwned(store, user_id, task_id)
    IN  IF task = None
        THEN Outcome(ErrorResult("Task not found"), store)
        ELSE LET new == [task EXCEPT !.completed = ~task.completed,
                                     !.updated_at = t]
             IN  Outcome([status |-> "success",
                          action |-> IF new.completed THEN "marked_complete"
                                     ELSE "marked_incomplete",
                          task |-> TaskDict(task_id, new)],
                         Put(store, task_id, [task EXCEPT !.updated_at = t]))

mark_complete_internal(store, user_id, task_id, t) ==
    LET task == SelectOwned(store, user_id, task_id)
    IN  IF task = None
        THEN Outcome(ErrorResult("Task not found"), store)
        ELSE LET new == [task EXCEPT !.completed = ~task.completed,
                                     !.updated_at = t]
             IN  Outcome([status |-> "success",
                          action |-> IF new.completed THEN "marked_complete"
                                     ELSE "marked_incomplete",
                          task |-> TaskDict(task_id, new)],
                         Put(store, task_id, new))

(* Mutant: the row is reported deleted but the delete is never committed. *)
delete_task_internal_uncommitted(store, user_id, task_id) ==
    LET task == SelectOwned(store, user_id, task_id)
    IN  IF task = None
        THEN Outcome(ErrorResult("Task not found"), store)
        ELSE Outcome([status |-> "success", message |-> task.title,
                      deleted_task_id |-> task_id],
                     store)

delete_task_internal(store, user_id, task_id) ==
    LET task == SelectOwned(store, user_id, task_id)
    IN  IF task = None
        THEN Outcome(ErrorResult("Task not found"), store)
        ELSE Outcome([status |-> "success", message |-> task.title,
                      deleted_task_id |-> task_id],
                     Remove(store, task_id))


(* ---------------------------------------------------------------------- *)
(* The REST endpoints of api/tasks.py on the same table.                   *)
(* ---------------------------------------------------------------------- *)
TaskResponse(id, task) ==
    [ id |-> id, title |-> task.title, description |-> task.description,
      completed |-> task.completed, user_id |-> task.user_id,
      created_at |-> task.created_at, updated_at |-> task.updated_at ]

HTTPException(code, detail) == [status_code |-> code, detail |-> detail]

(* Pydantic's check of a TaskUpdate body: lengths of the raw strings *)
TaskUpdateValid(title, description) ==
    /\ title \notin {Unset, None} =>
           len(title) >= 1 /\ len(title) <= MAX_TITLE
    /\ description \notin {Unset, None} => len(description) <= MAX_DESCRIPTION

update_task(store, user_id, task_id, title, description, completed, t) ==
    IF ~TaskUpdateValid(title, description)
    THEN Outcome(HTTPException(422, "Unprocessable Entity"), store)
    ELSE IF task_id \notin DOMAIN store
    THEN Outcome(HTTPException(404, "Task not found"), store)
    ELSE IF store[task_id].user_id # user_id
    THEN Outcome(HTTPException(403,
             "You do not have permission to update this task"), store)
    ELSE IF title # Unset /\ (Falsy(title) \/ len(strip(title)) = 0)
    THEN Outcome(HTTPException(400, "Title cannot be empty"), store)
    ELSE LET new == [store[task_id] EXCEPT
                 !.title = IF title # Unset THEN title ELSE @,
                 !.description =
                     IF description # Unset THEN description ELSE @,
                 !.completed = IF completed # Unset THEN completed.bool ELSE @,
                 !.updated_at = t]
         IN  Outcome([status_code |-> 200,
                      task |-> TaskResponse(task_id, new)],
                     Put(store, task_id, new))

(* Mutant: the ownership check of the endpoint is missing. *)
delete_task_no_owner_check(store, user_id, task_id) ==
    IF task_id \notin DOMAIN store
    THEN Outcome(HTTPException(404, "Task not found"), store)
    ELSE Outcome([status_code |-> 200,
                  message |-> "Task deleted successfully"],
                 Remove(store, task_id))

delete_task(store, user_id, task_id) ==
    IF task_id \notin DOMAIN store
    THEN Outcome(HTTPException(404, "Task not found"), store)
    ELSE IF store[task_id].user_id # user_id
    THEN Outcome(HTTPException(403,
             "You do not have permission to delete this task"), store)
    ELSE Outcome([status_code |-> 200,
                  message |-> "Task deleted successfully"],
                 Remove(store, task_id))

toggle_task_completion(store, user_id, task_id, t) ==
    IF task_id \notin DOMAIN store
    THEN Outcome(HTTPException(404, "Task not found"), store)
    ELSE IF store[task_id].user_id # user_id
    THEN Outcome(HTTPException(403,
             "You do not have permission to modify this task"), store)
    ELSE LET new == [store[task_id] EXCEPT
                 !.completed = ~store[task_id].completed,
                 !.updated_at = t]
         IN  Outcome([status_code |-> 200,
                      task |-> TaskResponse(task_id, new)],
                     Put(store, task_id, new))

Init ==
    /\ tasks = << >>
    /\ creator = << >>
    /\ now = 0
    /\ last = [op |-> "none"]
    /\ conversations = << >>
    /\ messages = << >>
    /\ request = [phase |-> "none"]
    /\ turn = [phase |-> "idle"]
    /\ workers = [w \in 1..MaxWorkers |-> [pc |-> "idle", made |-> {}]]
    /\ buckets = << >>

(* The store picks the primary key of a new row among the keys not in use; *)
(* 0 stands for "no key left" and is never given to a row.                 *)
(* Mutant: the store hands out a key that may be in use. *)
FreeIds_any(ids) == ids

FreeIds(ids) == IF ids \ DOMAIN tasks = {} THEN {0} ELSE ids \ DOMAIN tasks

(* datetime.utcnow(): the clock never runs backwards *)
Ticks(from, instants) == {d \in {0, 1} : from + d \in instants}

(* One call of a tool or endpoint by caller u: the store after it, and the *)
(* record of the call.  prior is the completion flag of the row named by   *)
(* id before a toggle, None for every other operation.  A direct call     *)
(* leaves the chat tables and the chat request alone.                      *)
Call(op, u, id, title, description, out) ==
    /\ tasks' = out.tasks
    /\ creator' = [i \in DOMAIN out.tasks |->
                       IF i \in DOMAIN creator THEN creator[i] ELSE u]
    /\ last' = [op |-> op, user |-> u, id |-> id, title |-> title,
                description |-> description, result |-> out.result,
                prior |-> IF op \in {"mark_complete", "toggle_task_completion"}
                             /\ id \in DOMAIN tasks
                          THEN Bool(tasks[id].completed) ELSE None]
    /\ UNCHANGED <<buckets, chatVars, workers>>

Succeeded(result) == result.status = "success"

CallCreateTask(u, title, description, ids, instants) ==
    \E new_id \in FreeIds(ids), d1 \in Ticks(now, instants) :
      \E d2 \in Ticks(now + d1, instants) :
        LET out == create_task_internal(tasks, u, title, description,
                                        new_id, now + d1, now + d1 + d2)
            ok == Succeeded(out.result)
        IN  /\ ok => new_id # 0
            /\ now' = IF ok THEN now + d1 + d2 ELSE now
            /\ Call("create_task", u, IF ok THEN new_id ELSE 0,
                    title, description, out)

CallGetTask(u, id) ==
    /\ Call("get_task", u, id, None, None, get_task_internal(tasks, u, id))
    /\ now' = now

CallListTasks(u) ==
    /\ Call("list_tasks", u, 0, None, None, list_tasks_internal(tasks, u))
    /\ now' = now

CallUpdateTask(u, id, title, description, instants) ==
    \E d \in Ticks(now, instants) :
        LET out == update_task_internal(tasks, u, id, title, description,
                                        now + d)
        IN  /\ now' = IF Succeeded(out.result) THEN now + d ELSE now
            /\ Call("update_task", u, id, title, description, out)

CallMarkComplete(u, id, instants) ==
    \E d \in Ticks(now, instants) :
        LET out == mark_complete_internal(tasks, u, id, now + d)
        IN  /\ now' = IF Succeeded(out.result) THEN now + d ELSE now
            /\ Call("mark_complete", u, id, None, None, out)

CallDeleteTask(u, id) ==
    /\ Call("delete_task", u, id, None, None,
            delete_task_internal(tasks, u, id))
    /\ now' = now

RestUpdateTask(u, id, title, description, completed, instants) ==
    \E d \in Ticks(now, instants) :
        LET out == update_task(tasks, u, id, title, description, completed,
                               now + d)
        IN  /\ now' = IF out.result.status_code = 200 THEN now + d ELSE now
            /\ Call("rest_update_task", u, id, title, description, out)

RestDeleteTask(u, id) ==
    /\ Call("rest_delete_task", u, id, None, None, delete_task(tasks, u, id))
    /\ now' = now

RestToggleTaskCompletion(u, id, instants) ==
    \E d \in Ticks(now, instants) :
        LET out == toggle_task_completion(tasks, u, id, now + d)
        IN  /\ now' = IF out.result.status_code = 200 THEN now + d ELSE now
            /\ Call("toggle_task_completion", u, id, None, None, out)

(* ---------------------------------------------------------------------- *)
(* Spec: two users working on the shared table through the tools and the   *)
(* REST endpoints, with one valid title and a clock of two instants.       *)
(* ---------------------------------------------------------------------- *)
TaskIds == 1..MaxId
IdArgs == 0..MaxId  \* task_id arguments, 0 standing for a non-positive id
Instants == {0, 1}
Title1 == Str(1, 1, 1)
RestBodies ==
    { <<strip(Title1), Unset, Unset>>, <<Unset, Unset, Bool(TRUE)>> }

Next ==
    \E u \in Users :
        \/ \E title \in {None, Title1} :
               CallCreateTask(u, title, None, TaskIds, Instants)
        \/ \E id \in IdArgs : CallGetTask(u, id)
        \/ CallListTasks(u)
        \/ \E id \in IdArgs, title \in {None, Title1} :
               CallUpdateTask(u, id, title, None, Instants)
        \/ \E id \in IdArgs : CallMarkComplete(u, id, Instants)
        \/ \E id \in IdArgs : CallDeleteTask(u, id)
        \/ \E id \in IdArgs, b \in RestBodies :
               RestUpdateTask(u, id, b[1], b[2], b[3], Instants)
        \/ \E id \in IdArgs : RestDeleteTask(u, id)
        \/ \E id \in IdArgs : RestToggleTaskCompletion(u, id, Instants)

Spec == Init /\ [][Next]_vars

(* ---------------------------------------------------------------------- *)
(* SpecFields: the six tools on a table of one row, with titles and        *)
(* descriptions around the length limits and a clock of 0..MaxClock.       *)
(* ---------------------------------------------------------------------- *)
OneId == {1}
OneIdArgs == {0, 1}
ClockValues == 0..MaxClock
TitleArgs ==
    { None, Str(0, 0, 0), Str(1, 0, 0), Str(1, 1, 1), Str(0, MAX_TITLE, 0),
      Str(1, MAX_TITLE, 1), Str(0, MAX_TITLE + 1, 0) }
DescriptionArgs ==
    { None, Str(0, 0, 0), Str(0, MAX_DESCRIPTION, 0),
      Str(0, MAX_DESCRIPTION + 1, 0) }

NextFields ==
    \E u \in Users :
        \/ \E title \in TitleArgs, description \in DescriptionArgs :
               CallCreateTask(u, title, description, OneId, ClockValues)
        \/ \E id \in OneIdArgs : CallGetTask(u, id)
        \/ CallListTasks(u)
        \/ \E id \in OneIdArgs, title \in TitleArgs,
              description \in DescriptionArgs :
               CallUpdateTask(u, id, title, description, ClockValues)
        \/ \E id \in OneIdArgs : CallMarkComplete(u, id, ClockValues)
        \/ \E id \in OneIdArgs : CallDeleteTask(u, id)

SpecFields == Init /\ [][NextFields]_vars

(* ---------------------------------------------------------------------- *)
(* Properties                                                              *)
(* ---------------------------------------------------------------------- *)
NotFound == ErrorResult("Task not found")
OwnedBy(u) == {i \in DOMAIN tasks : tasks[i].user_id = u}
ToolCalled(op) == last.op = op
ToolSucceeded(op) == last.op = op /\ Succeeded(last.result)

(* C1: in every reachable state, list_tasks called with context user U     *)
(* returns exactly the tasks whose owner is U (the rows created under U's  *)
(* context), none of another user, and total is the number of U's tasks.   *)
C1_ListReturnsExactlyOwnTasks ==
    \A u \in Users :
        LET r == list_tasks_internal(tasks, u).result
        IN  /\ \A i \in DOMAIN tasks : tasks[i].user_id = creator[i]
            /\ {d.id : d \in r.tasks} = {i \in DOMAIN tasks : creator[i] = u}
            /\ \A d \in r.tasks : d = TaskDict(d.id, tasks[d.id])
            /\ r.total = Cardinality(OwnedBy(u))
            /\ r.total = Cardinality(r.tasks)
            /\ ToolCalled("list_tasks") /\ last.user = u => last.result = r

C1_Witness ==
    /\ ToolCalled("list_tasks")
    /\ last.result.total = 1
    /\ \E i \in DOMAIN tasks : tasks[i].user_id # last.user

(* C2: for get_task, update_task with valid fields, mark_complete and      *)
(* delete_task called by U1 with a positive id, the result when the id     *)
(* belongs to another user is the result when no row has that id: the      *)
(* "Task not found" error.                                                 *)
C2_ForeignLooksLikeMissing ==
    \A u \in Users, id \in DOMAIN tasks :
        tasks[id].user_id # u =>
            LET gone == Remove(tasks, id)
            IN  /\ get_task_internal(tasks, u, id).result = NotFound
                /\ get_task_internal(gone, u, id).result = NotFound
                /\ update_task_internal(tasks, u, id, Title1, None,
                                        now).result
                     = update_task_internal(gone, u, id, Title1, None,
                                            now).result
                /\ update_task_internal(tasks, u, id, Title1, None,
                                        now).result = NotFound
                /\ mark_complete_internal(tasks, u, id, now).result
                     = mark_complete_internal(gone, u, id, now).result
                /\ mark_complete_internal(tasks, u, id, now).result = NotFound
                /\ delete_task_internal(tasks, u, id).result
                     = delete_task_internal(gone, u, id).result
                /\ delete_task_internal(tasks, u, id).result = NotFound
                /\ (/\ last.op \in {"get_task", "mark_complete",
                                    "delete_task", "update_task"}
                    /\ last.user = u /\ last.id = id
                    /\ last.op = "update_task" => last.title # None)
                   => last.result = NotFound

C2_Witness ==
    /\ ToolCalled("get_task")
    /\ last.id \in DOMAIN tasks
    /\ tasks[last.id].user_id # last.user
    /\ last.result = NotFound

(* C3: no tool call (update_task, mark_complete, delete_task) and no REST  *)
(* request (update, toggle completion, delete) made as U1 changes or       *)
(* deletes a task of another user U2: it still exists with the same title, *)
(* description, completion flag and timestamps.                            *)
C3_OthersTasksUntouched ==
    [][ \A i \in DOMAIN tasks :
            tasks[i].user_id # last'.user =>
                i \in DOMAIN tasks' /\ tasks'[i] = tasks[i] ]_vars

C3_Witness ==
    /\ ToolCalled("rest_delete_task")
    /\ last.id \in DOMAIN tasks
    /\ tasks[last.id].user_id # last.user
    /\ last.result.status_code = 403

(* C4: a successful create_task adds exactly one task, owned by the user   *)
(* of the execution context, not completed, with created timestamp <=      *)
(* updated timestamp, and changes no existing task.                        *)
C4_CreateAddsOneOwnedTask ==
    [][ (last'.op = "create_task" /\ Succeeded(last'.result)) =>
            /\ last'.id \notin DOMAIN tasks
            /\ DOMAIN tasks' = DOMAIN tasks \cup {last'.id}
            /\ \A i \in DOMAIN tasks : tasks'[i] = tasks[i]
            /\ tasks'[last'.id].user_id = last'.user
            /\ tasks'[last'.id].completed = FALSE
            /\ tasks'[last'.id].created_at <= tasks'[last'.id].updated_at
            /\ last'.result.task = TaskDict(last'.id, tasks'[last'.id]) ]_vars

C4_Witness ==
    /\ ToolSucceeded("create_task")
    /\ last.user = 2
    /\ tasks[last.id].created_at < tasks[last.id].updated_at
    /\ \E i \in DOMAIN tasks : tasks[i].user_id = 1 /\ tasks[i].completed

C7_NoFieldsNoMutation ==
    [][ (/\ last'.op = "update_task"
         /\ last'.title = None /\ last'.description = None) =>
            /\ last'.result = ErrorResult("No fields provided to update")
            /\ tasks' = tasks ]_vars

C7_Witness ==
    /\ ToolCalled("update_task")
    /\ last.title = None /\ last.description = None
    /\ last.id \in DOMAIN tasks
    /\ tasks[last.id].user_id = last.user
    /\ last.result.status = "error"

(* C8: create_task and update_task accept a title iff its trimmed length   *)
(* is 1..200 and a description iff its length is at most 2000; a call      *)
(* rejected by this validation returns status "error" and leaves the store *)
(* unchanged.                                                              *)
TitleAcceptable(title) ==
    title # None /\ len(strip(title)) >= 1 /\ len(strip(title)) <= MAX_TITLE
DescriptionAcceptable(description) ==
    description = None \/ len(description) <= MAX_DESCRIPTION
ValidationErrors ==
    { "Title is required", "Title cannot be empty",
      "Title exceeds 200 characters", "Description exceeds 2000 characters" }
RejectedByValidation(result) ==
    result.status = "error" /\ result.error \in ValidationErrors

C8_LengthValidation ==
    [][ /\ last'.op = "create_task" =>
            /\ Succeeded(last'.result) <=>
                  /\ TitleAcceptable(last'.title)
                  /\ DescriptionAcceptable(last'.description)
            /\ ~Succeeded(last'.result) =>
                  RejectedByValidation(last'.result) /\ tasks' = tasks
        /\ (/\ last'.op = "update_task"
            /\ last'.title # None \/ last'.description # None) =>
            /\ ~RejectedByValidation(last'.result) <=>
                  /\ last'.title = None \/ TitleAcceptable(last'.title)
                  /\ DescriptionAcceptable(last'.description)
            /\ RejectedByValidation(last'.result) => tasks' = tasks ]_vars

C8_Witness ==
    /\ ToolSucceeded("create_task")
    /\ last.title = Str(1, MAX_TITLE, 1)
    /\ last.description = Str(0, MAX_DESCRIPTION, 0)
    /\ tasks[last.id].title = Str(0, MAX_TITLE, 0)

(* C9: a successful update_task changes only the fields it was given:      *)
(* title only leaves the description, description only leaves the title;   *)
(* completion flag, owner, id and created timestamp are unchanged and the  *)
(* updated timestamp does not go back.                                     *)
C9_UpdateTouchesOnlyGivenFields ==
    [][ (last'.op = "update_task" /\ Succeeded(last'.result)) =>
            /\ DOMAIN tasks' = DOMAIN tasks
            /\ last'.id \in DOMAIN tasks
            /\ LET old == tasks[last'.id]
                   new == tasks'[last'.id]
               IN  /\ last'.title = None => new.title = old.title
                   /\ last'.title # None => new.title = strip(last'.title)
                   /\ last'.description = None =>
                          new.description = old.description
                   /\ last'.description # None =>
                          new.description = last'.description
                   /\ new.completed = old.completed
                   /\ new.user_id = old.user_id
                   /\ new.created_at = old.created_at
                   /\ new.updated_at >= old.updated_at
                   /\ new.updated_at = now' ]_vars

C9_Witness ==
    /\ ToolSucceeded("update_task")
    /\ last.title # None /\ last.description = None
    /\ tasks[last.id].description = Str(0, MAX_DESCRIPTION, 0)
    /\ tasks[last.id].completed
    /\ tasks[last.id].updated_at > tasks[last.id].created_at

(* C10: right after a successful delete_task on id t by user u, the task   *)
(* is gone: delete_task, get_task, update_task (with a valid field) and    *)
(* mark_complete called on t by u return "Task not found", and t is not in *)
(* u's list_tasks.                                                         *)
C10_DeleteIsPermanent ==
    ToolSucceeded("delete_task") =>
        LET u == last.user
            t == last.id
        IN  /\ t \notin DOMAIN tasks
            /\ delete_task_internal(tasks, u, t).result = NotFound
            /\ get_task_internal(tasks, u, t).result = NotFound
            /\ update_task_internal(tasks, u, t, Title1, None, now).result
                 = NotFound
            /\ mark_complete_internal(tasks, u, t, now).result = NotFound
            /\ \A d \in list_tasks_internal(tasks, u).result.tasks : d.id # t

C10_Witness ==
    /\ ToolSucceeded("delete_task")
    /\ last.id \notin DOMAIN tasks
    /\ tasks # << >>

(* ---------------------------------------------------------------------- *)
(* The Tool Executor.  An exception is its type, the text str() gives for  *)
(* it and the keywords the chat endpoint looks for in that text.  A call    *)
(* either returns (Outcome) or raises (Raised); the store is as the call    *)
(* left it.                                                                 *)
(* ---------------------------------------------------------------------- *)
Exception(type, text, mentions) ==
    [type |-> type, text |-> text, mentions |-> mentions]
str(e) == e.text
Raised(e, store) == [raised |-> e, tasks |-> store]
IsRaised(out) == "raised" \in DOMAIN out

Registry ==
    { "list_tasks", "create_task", "mark_complete", "update_task",
      "delete_task", "get_task" }

(* The keyword parameters of each handler after ctx: those without and     *)
(* those with a default value.                                              *)
Required(name) ==
    CASE name = "list_tasks" -> {}
      [] name = "create_task" -> {"title"}
      [] OTHER -> {"task_id"}
Defaulted(name) ==
    CASE name = "create_task" -> {"description"}
      [] name = "update_task" -> {"title", "description"}
      [] OTHER -> {}

(* Mutant: keys that are no parameter of the handler are let through. *)
Binds_any_key(name, arguments) == Required(name) \subseteq DOMAIN arguments

(* tool_func(ctx, **arguments) binds: every required parameter is given    *)
(* and every key is a parameter.  Python raises TypeError otherwise.       *)
Binds(name, arguments) ==
    /\ Required(name) \subseteq DOMAIN arguments
    /\ DOMAIN arguments \subseteq Required(name) \cup Defaulted(name)
TypeError(name) ==
    Exception("TypeError", "missing or unexpected keyword argument", {})
Arg(arguments, key, default) ==
    IF key \in DOMAIN arguments THEN arguments[key] ELSE default

(* The handler registered under name, called with bound arguments. *)
tool_func(name, store, user_id, arguments, new_id, t) ==
    CASE name = "list_tasks" -> list_tasks_internal(store, user_id)
      [] name = "create_task" ->
           create_task_internal(store, user_id, arguments.title,
                                Arg(arguments, "description", Str(0, 0, 0)),
                                new_id, t, t)
      [] name = "mark_complete" ->
           mark_complete_internal(store, user_id, arguments.task_id, t)
      [] name = "update_task" ->
           update_task_internal(store, user_id, arguments.task_id,
                                Arg(arguments, "title", None),
                                Arg(arguments, "description", None), t)
      [] name = "delete_task" ->
           delete_task_internal(store, user_id, arguments.task_id)
      [] name = "get_task" ->
           get_task_internal(store, user_id, arguments.task_id)

ToolNotFound(tool_name) ==
    Exception("ValueError", "Tool '" \o tool_name \o "' not found", {})

(* Mutant: the handler is called outside the try block. *)
AgentService_execute_tool_uncaught(store, user_id, tool_name, arguments, new_id, t) ==
    IF tool_name \notin Registry
    THEN Raised(ToolNotFound(tool_name), store)
    ELSE IF ~Binds(tool_name, arguments)
    THEN Raised(TypeError(tool_name), store)
    ELSE tool_func(tool_name, store, user_id, arguments, new_id, t)

(* AgentService.execute_tool: the lookup is outside the try block, the     *)
(* handler call inside it.                                                  *)
AgentService_execute_tool(store, user_id, tool_name, arguments, new_id, t) ==
    IF tool_name \notin Registry
    THEN Raised(ToolNotFound(tool_name), store)
    ELSE IF ~Binds(tool_name, arguments)
    THEN Outcome(ErrorResult(str(TypeError(tool_name))), store)
    ELSE tool_func(tool_name, store, user_id, arguments, new_id, t)

(* CohereAgentService.execute_tool: lookup and call are inside the try     *)
(* block, and its own results carry an error field only.                   *)
CohereAgentService_execute_tool(store, user_id, tool_name, arguments, new_id, t) ==
    IF tool_name \notin Registry
    THEN Outcome([error |-> "Tool '" \o tool_name \o "' not found"], store)
    ELSE IF ~Binds(tool_name, arguments)
    THEN Outcome([error |-> str(TypeError(tool_name))], store)
    ELSE tool_func(tool_name, store, user_id, arguments, new_id, t)

(* ---------------------------------------------------------------------- *)
(* The Orchestrator: process_message of AgentService (OpenAI protocol) and *)
(* of CohereAgentService.  turn holds the position in one call of          *)
(* process_message: the proposal of the first completion, the calls        *)
(* executed so far, the number of completion calls that have been served.  *)
(* ---------------------------------------------------------------------- *)
MaxCalls == 2       \* tool calls the provider proposes in one response

Services == {"AgentService", "CohereAgentService"}
NoArguments == << >>                    \* the dict {}
Json(arguments) == [json |-> arguments] \* the JSON text of a dict
Garbled == [garbled |-> TRUE]           \* a text json.loads rejects
Decodes(text) == "json" \in DOMAIN text
json_loads(text) == text.json
JSONDecodeError ==
    Exception("JSONDecodeError", "Expecting value: line 1 column 1 (char 0)",
              {})
(* The text of a completion is a sequence of characters. *)
Chars == <<"a", "b", "c">>
Text(n) == [i \in 1..n |-> Chars[(i % 3) + 1]]
Reply == Text(1)
List(entries) == [list |-> entries]     \* a non-empty list of entries

(* The entries of the prompt (the messages list): the system prompt and   *)
(* the user's message, and what AgentService appends for a tool call: an   *)
(* assistant entry with that call and a tool entry with its result.  The   *)
(* id of a call is its position in the provider's response.                *)
SystemEntry == [role |-> "system"]
UserEntry == [role |-> "user"]
ProposedCall(id, tool_call) ==
    [id |-> id, type |-> "function",
     function |-> [name |-> tool_call.name,
                   arguments |-> tool_call.arguments]]
AssistantEntry(calls) ==
    [role |-> "assistant", content |-> None, tool_calls |-> calls]
ToolEntry(id, tool_result) ==
    [role |-> "tool", tool_call_id |-> id, content |-> Json(tool_result)]

AgentService_append(prompt, id, tool_call, tool_result) ==
    Append(Append(prompt, AssistantEntry(<<ProposedCall(id, tool_call)>>)),
           ToolEntry(id, tool_result))

(* What a completion request hands to the provider: the prompt, whether    *)
(* the tools are offered, and for Cohere's second call the tool results.   *)
FirstRequest(t) == [messages |-> t.prompt, tools |-> TRUE]

SecondRequest(t) ==
    IF t.service # "CohereAgentService"
    THEN [messages |-> t.prompt, tools |-> FALSE]
    ELSE [messages |-> t.prompt, tools |-> TRUE,
          tool_results |->
              [i \in DOMAIN t.executed |->
                  [call |-> [name |-> t.executed[i].tool,
                             parameters |-> t.executed[i].parameters],
                   outputs |-> <<t.executed[i].result>>]]]

(* process_message is entered: nothing proposed, nothing executed. *)
Started(service, user_id) ==
    [phase |-> "first_call", service |-> service, user_id |-> user_id,
     proposal |-> << >>, executed |-> << >>, completions |-> 0,
     prompt |-> <<SystemEntry, UserEntry>>, requests |-> << >>,
     attempts |-> 0, waits |-> << >>, failures |-> << >>,
     reply |-> None, result |-> None, exception |-> None]

(* Mutant: the reply is returned without the provider's text. *)
Returns_without_content(t, content, tool_calls) == [t EXCEPT !.phase = "returned", !.reply = content, !.result = [content |-> << >>, tool_calls |-> tool_calls]]

(* The provider answered with the text content, and process_message        *)
(* returns it with the record of the executed calls.                       *)
Returns(t, content, tool_calls) ==
    [t EXCEPT !.phase = "returned", !.reply = content,
              !.result = [content |-> content, tool_calls |-> tool_calls]]
Raises(t, e) == [t EXCEPT !.phase = "raised", !.exception = e]
InProgress(t) == t.phase \in {"first_call", "executing", "second_call"}

ToolCallEntry(tool_name, tool_args, tool_result) ==
    [tool |-> tool_name, parameters |-> tool_args, result |-> tool_result,
     duration_ms |-> 0]
Executed(entry, store) == [entry |-> entry, tasks |-> store]

(* One round of AgentService's loop over assistant_message.tool_calls:     *)
(* decode the arguments, execute, record.                                  *)
AgentService_tool_call(store, user_id, tool_call, new_id, t) ==
    LET tool_args_str == tool_call.arguments
        empty == tool_args_str = None \/ tool_args_str = Str(0, 0, 0)
    IN  IF ~empty /\ ~Decodes(tool_args_str)
        THEN Raised(JSONDecodeError, store)
        ELSE LET tool_args == IF empty THEN NoArguments
                              ELSE json_loads(tool_args_str)
                 out == AgentService_execute_tool(store, user_id,
                            tool_call.name, tool_args, new_id, t)
             IN  IF IsRaised(out) THEN out
                 ELSE Executed(ToolCallEntry(tool_call.name, tool_args,
                                             out.result), out.tasks)

(* One round of CohereAgentService's loop over response.tool_calls. *)
CohereAgentService_tool_call(store, user_id, tool_call, new_id, t) ==
    LET tool_args == tool_call.parameters
        out == CohereAgentService_execute_tool(store, user_id, tool_call.name,
                                               tool_args, new_id, t)
    IN  Executed(ToolCallEntry(tool_call.name, tool_args, out.result),
                 out.tasks)

(* Failures of the completion provider, by the keywords their text holds. *)
ProviderErrors ==
    { Exception("RateLimitError", "Error code: 429 - rate_limit_exceeded",
                {"rate_limit", "429"}),
      Exception("BadRequestError", "Error code: 400 - invalid request", {}) }

(* process_message is called outside a chat request (as the unit tests do). *)
ProcessMessage(service, user_id) ==
    /\ ~InProgress(turn)
    /\ request.phase # "agent"
    /\ turn' = Started(service, user_id)
    /\ UNCHANGED <<buckets, taskVars, workers, conversations, messages, request>>

(* The table has room for the rows the proposal can create. *)
Fits(proposal, ids) ==
    Cardinality({i \in DOMAIN proposal : proposal[i].name = "create_task"})
        <= Cardinality(ids \ DOMAIN tasks)

(* The first completion call, retries included: the provider proposes tool *)
(* calls, or answers with text, or the call fails for good.                *)
FirstCompletion(proposals, replies, ids) ==
    /\ turn.phase = "first_call"
    /\ LET called == [turn EXCEPT !.completions = 1,
                                  !.requests = <<FirstRequest(turn)>>]
       IN  \/ \E p \in proposals[turn.service] :
                 /\ Fits(p, ids)
                 /\ turn' = [called EXCEPT !.phase = "executing",
                                           !.proposal = p]
           \/ \E content \in replies : turn' = Returns(called, content, None)
           \/ \E e \in ProviderErrors : turn' = Raises(called, e)
    /\ UNCHANGED <<buckets, taskVars, workers, conversations, messages, request>>

(* The next proposed call is decoded and executed; after the last one the  *)
(* loop is left.  An exception leaves process_message through its except   *)
(* clause, which raises it again.                                          *)
ExecuteToolCall(ids) ==
    /\ turn.phase = "executing"
    /\ turn.service \in Services
    /\ \E new_id \in FreeIds(ids) :
         LET i == Len(turn.executed) + 1
             tool_call == turn.proposal[i]
             out == IF turn.service = "AgentService"
                    THEN AgentService_tool_call(tasks, turn.user_id,
                                                tool_call, new_id, now)
                    ELSE CohereAgentService_tool_call(tasks, turn.user_id,
                                                      tool_call, new_id, now)
         IN  /\ 0 \notin DOMAIN out.tasks
             /\ tasks' = out.tasks
             /\ creator' = [id \in DOMAIN out.tasks |->
                               IF id \in DOMAIN creator THEN creator[id]
                               ELSE turn.user_id]
             /\ turn' = IF IsRaised(out) THEN Raises(turn, out.raised)
                        ELSE [turn EXCEPT
                                !.executed = Append(@, out.entry),
                                !.prompt =
                                    IF turn.service = "AgentService"
                                    THEN AgentService_append(@, i, tool_call,
                                             out.entry.result)
                                    ELSE @,
                                !.phase = IF i = Len(turn.proposal)
                                          THEN "second_call"
                                          ELSE "executing"]
    /\ UNCHANGED <<buckets, now, last, conversations, messages, request, workers>>

(* Mutant: a transient failure of the second call is tried again. *)
SecondCompletion_retried(replies) == turn.phase = "second_call" /\ (LET called == [turn EXCEPT !.completions = 2, !.requests = Append(@, SecondRequest(turn))] IN (\E content \in replies : turn' = Returns(called, content, List(turn.executed))) \/ (\E e \in ProviderErrors : turn' = IF e.mentions = {} THEN Raises(called, e) ELSE [turn EXCEPT !.failures = Append(@, e)])) /\ UNCHANGED <<buckets, taskVars, workers, conversations, messages, request>>

(* The second completion call, made once with the tool results. *)
SecondCompletion(replies) ==
    /\ turn.phase = "second_call"
    /\ LET called == [turn EXCEPT
                         !.completions = 2,
                         !.requests = Append(@, SecondRequest(turn))]
       IN  \/ \E content \in replies :
                 turn' = Returns(called, content,
                                 IF Len(turn.executed) = 0 THEN None
                                 ELSE List(turn.executed))
           \/ \E e \in ProviderErrors : turn' = Raises(called, e)
    /\ UNCHANGED <<buckets, taskVars, workers, conversations, messages, request>>

(* ---------------------------------------------------------------------- *)
(* SpecTurn: process_message of either service, called for either user,    *)
(* with proposals of up to MaxCalls calls over a table of one row.         *)
(* ---------------------------------------------------------------------- *)
SeqsUpTo(S, n) == UNION {[1..k -> S] : k \in 1..n}
OpenAICalls ==
    { [name |-> "list_tasks", arguments |-> None],
      [name |-> "create_task", arguments |-> Json([title |-> Title1])],
      [name |-> "mark_complete", arguments |-> Json([task_id |-> 1])],
      [name |-> "delete_task", arguments |-> Json(NoArguments)],
      [name |-> "nonexistent_tool", arguments |-> Json(NoArguments)],
      [name |-> "list_tasks", arguments |-> Garbled] }
CohereCalls ==
    { [name |-> "list_tasks", parameters |-> NoArguments],
      [name |-> "create_task", parameters |-> [title |-> Title1]],
      [name |-> "mark_complete", parameters |-> [task_id |-> 1]],
      [name |-> "delete_task", parameters |-> NoArguments],
      [name |-> "nonexistent_tool", parameters |-> NoArguments] }
TurnProposals ==
    [AgentService |-> SeqsUpTo(OpenAICalls, MaxCalls),
     CohereAgentService |-> SeqsUpTo(CohereCalls, MaxCalls)]

NextTurn ==
    \/ \E service \in Services, u \in Users : ProcessMessage(service, u)
    \/ FirstCompletion(TurnProposals, {Reply}, OneId)
    \/ ExecuteToolCall(OneId)
    \/ SecondCompletion({Reply})

SpecTurn == Init /\ [][NextTurn]_vars

(* ---------------------------------------------------------------------- *)
(* Properties of the Tool Executor and the Orchestrator                    *)
(* ---------------------------------------------------------------------- *)
TurnActive == turn.phase # "idle"
TurnOver == turn.phase \in {"returned", "raised"}
HasStatus(result) ==
    /\ "status" \in DOMAIN result
    /\ result.status \in {"success", "error"}
IsErrorResult(result) == "error" \in DOMAIN result
(* The position in the proposal at which the loop was left by an exception, *)
(* 0 if it was not.                                                         *)
AbortedAt ==
    IF turn.phase = "raised" /\ turn.completions = 1
       /\ Len(turn.proposal) > 0
    THEN Len(turn.executed) + 1 ELSE 0

(* C11: every result produced for a tool invocation, by a handler or by    *)
(* the executor, is an object with a status field that is "success" or     *)
(* "error".  (list_tasks answers without a status field, and so does       *)
(* CohereAgentService.execute_tool for an unknown tool or an exception.)   *)
C11_EveryToolResultCarriesStatus ==
    TurnActive =>
        \A i \in DOMAIN turn.executed : HasStatus(turn.executed[i].result)

(* C13: asked for a tool name that is not in the registry, the executor    *)
(* returns a structured "tool not found" error result instead of raising,  *)
(* and the turn continues: the call is recorded with an error result and   *)
(* the loop is never left at a call that names an unregistered tool.       *)
C13_UnknownToolYieldsErrorResult ==
    TurnActive =>
        /\ \A i \in DOMAIN turn.executed :
               turn.executed[i].tool \notin Registry
                   => IsErrorResult(turn.executed[i].result)
        /\ AbortedAt # 0 => turn.proposal[AbortedAt].name \in Registry

(* C14: for a registered tool, an exception raised by the handler call     *)
(* (here the TypeError of arguments that do not bind) comes back from      *)
(* AgentService.execute_tool as a result with status "error" and a         *)
(* message, and never leaves the executor: when the loop is left by an     *)
(* exception, the call it was at named no registered tool or carried a     *)
(* payload that does not decode.                                           *)
C14_HandlerExceptionsBecomeErrorResults ==
    TurnActive /\ turn.service = "AgentService" =>
        /\ \A i \in DOMAIN turn.executed :
               LET e == turn.executed[i]
               IN  e.tool \in Registry /\ ~Binds(e.tool, e.parameters)
                       => e.result = ErrorResult(str(TypeError(e.tool)))
        /\ AbortedAt # 0 =>
               LET c == turn.proposal[AbortedAt]
               IN  \/ c.name \notin Registry
                   \/ ~Decodes(c.arguments) /\ c.arguments # None
                        /\ c.arguments # Str(0, 0, 0)

(* A turn of AgentService in which a handler call raised, was answered     *)
(* with an error result, and process_message went on to return.            *)
C14_Witness ==
    /\ turn.phase = "returned"
    /\ turn.service = "AgentService"
    /\ \E i \in DOMAIN turn.executed :
           /\ turn.executed[i].tool \in Registry
           /\ ~Binds(turn.executed[i].tool, turn.executed[i].parameters)
           /\ turn.executed[i].result.status = "error"

(* C15: the k >= 1 proposed calls are executed one after another in the    *)
(* proposed order, all of them, and the returned tool_calls list has the   *)
(* k entries in that order.                                                *)
C15_AllProposedCallsExecutedInOrder ==
    TurnActive =>
        /\ Len(turn.executed) <= Len(turn.proposal)
        /\ \A i \in DOMAIN turn.executed :
               turn.executed[i].tool = turn.proposal[i].name
        /\ TurnOver /\ Len(turn.proposal) > 0 =>
               Len(turn.executed) = Len(turn.proposal)
        /\ turn.phase = "returned" /\ Len(turn.proposal) > 0 =>
               turn.result.tool_calls = List(turn.executed)

(* C16: a failing call (unknown name, payload that does not decode,        *)
(* handler error) does not abort the turn: the loop is never left by an    *)
(* exception, and a turn with a proposal ends only after the second        *)
(* completion call has been made.                                          *)
C16_FailedCallDoesNotAbortTurn ==
    TurnActive =>
        /\ AbortedAt = 0
        /\ TurnOver /\ Len(turn.proposal) > 0 => turn.completions = 2

(* ---------------------------------------------------------------------- *)
(* The chat endpoints.  A conversation row keeps its owner, its updated    *)
(* timestamp and its soft-delete mark, a message row its conversation,     *)
(* role, sequence number and soft-delete mark; both tables hand out the    *)
(* ids 1, 2, ... in order.                                                 *)
(* ---------------------------------------------------------------------- *)
MaxConversations == 2   \* rows of the conversations table
MaxMessages == 4        \* rows of the messages table

Id(n) == [int |-> n]                    \* an integer field of a request body
At(t) == [at |-> t]                     \* a timestamp that is set
Conversation(user_id, updated_at, deleted_at) ==
    [user_id |-> user_id, updated_at |-> updated_at,
     deleted_at |-> deleted_at]
Message(conversation_id, role, sequence_number) ==
    [conversation_id |-> conversation_id, role |-> role,
     sequence_number |-> sequence_number, deleted_at |-> None]
(* An HTTPException that carries an X-Error-Details header *)
HTTPError(code, detail, details) ==
    [status_code |-> code, detail |-> detail, x_error_details |-> details]
IsHTTPError(r) == "detail" \in DOMAIN r
(* The terminal event of a stream that failed *)
ErrorEvent(text) == [status_code |-> 200, error |-> text, done |-> TRUE]

(* The events of a stream that succeeds.  content[i:j] is Slice, and the   *)
(* loop over range(0, len(content), chunk_size) makes one content event    *)
(* per start index 0, chunk_size, 2 * chunk_size, ... below len(content).  *)
chunk_size == 10
Slice(content, i, j) ==
    SubSeq(content, i + 1, IF j < Len(content) THEN j ELSE Len(content))
ContentEvent(chunk) == [content |-> chunk, done |-> FALSE]

(* Mutant: the loop stops before a last chunk that is not full. *)
content_events_full_chunks_only(content) ==
    [k \in 1..(Len(content) \div chunk_size) |->
        ContentEvent(Slice(content, (k - 1) * chunk_size, k * chunk_size))]

content_events(content) ==
    [k \in 1..((Len(content) + chunk_size - 1) \div chunk_size) |->
        ContentEvent(Slice(content, (k - 1) * chunk_size, k * chunk_size))]
FinalEvent(conversation_id, message_id, tool_calls, timestamp) ==
    [status_code |-> 200, done |-> TRUE, conversation_id |-> conversation_id,
     message_id |-> message_id, tool_calls |-> tool_calls,
     timestamp |-> timestamp]

(* Mutant: the path user is never compared with the token's user. *)
Authorized_always(current_user, user_id) == TRUE

(* current_user["user_id"] != user_id raises 403 *)
Authorized(current_user, user_id) == current_user = user_id

(* validate_conversation_id returns (TRUE) or raises ValueError (FALSE) *)
validate_conversation_id(conversation_id) ==
    conversation_id = None \/ conversation_id.int > 0
(* Python's "if chat_request.conversation_id:" *)
Truthy(conversation_id) == conversation_id # None /\ conversation_id.int # 0

(* The rows a table holds: a row that was deleted for good leaves None in  *)
(* its place, and its id is not handed out again.                          *)
Stored(table) == {i \in DOMAIN table : table[i] # None}

(* Mutant: the owner of the conversation is not compared with the caller. *)
load_conversation_no_owner_check(convs, user_id, id) ==
    IF id \notin Stored(convs)
    THEN HTTPError(404, "Conversation not found",
                   "conversation_id does not exist")
    ELSE IF convs[id].deleted_at # None
    THEN HTTPError(404, "Conversation not found", "Conversation was deleted")
    ELSE [conversation |-> id]

(* chat(): session.get and the three checks on the conversation *)
load_conversation(convs, user_id, id) ==
    IF id \notin Stored(convs)
    THEN HTTPError(404, "Conversation not found",
                   "conversation_id does not exist")
    ELSE IF convs[id].user_id # user_id
    THEN HTTPError(403, "Permission denied",
                   "Conversation belongs to different user")
    ELSE IF convs[id].deleted_at # None
    THEN HTTPError(404, "Conversation not found", "Conversation was deleted")
    ELSE [conversation |-> id]

(* chat_stream(): the same lookup, answered with error events *)
stream_load_conversation(convs, user_id, id) ==
    IF id \notin Stored(convs) \/ convs[id].user_id # user_id
    THEN ErrorEvent("Conversation not found")
    ELSE IF convs[id].deleted_at # None
    THEN ErrorEvent("Conversation was deleted")
    ELSE [conversation |-> id]

create_conversation(convs, user_id, t) ==
    Append(convs, Conversation(user_id, t, None))

(* Mutant: the assistant message is committed without touching the         *)
(* conversation.                                                           *)
update_timestamp_skipped(convs, conversation, t) == convs

(* conversation.updated_at = datetime.utcnow(); session.add(conversation) *)
update_timestamp(convs, conversation, t) ==
    [convs EXCEPT ![conversation].updated_at = t]

(* Mutant: the messages of every conversation are counted. *)
next_sequence_number_all(msgs, conversation_id) == Len(msgs) + 1

(* The number of messages of the conversation that are not deleted, plus 1 *)
next_sequence_number(msgs, conversation_id) ==
    Cardinality({m \in Stored(msgs) :
                    /\ msgs[m].conversation_id = conversation_id
                    /\ msgs[m].deleted_at = None}) + 1

(* Mutant: the message is added to the session but never committed. *)
save_message_uncommitted(msgs, conversation_id, role, sequence_number) == msgs

(* session.add(message); session.commit() *)
save_message(msgs, conversation_id, role, sequence_number) ==
    Append(msgs, Message(conversation_id, role, sequence_number))

(* The user-facing text chat() picks from the keywords in str(e) *)
error_message(e) ==
    IF "rate_limit" \in e.mentions
    THEN "AI service is currently busy. Please try again in a moment."
    ELSE IF "api_key" \in e.mentions \/ "authentication" \in e.mentions
    THEN "AI service configuration error. Please contact support."
    ELSE IF "timeout" \in e.mentions
    THEN "AI service is taking too long to respond. Please try again."
    ELSE IF "connection" \in e.mentions
    THEN "Unable to connect to AI service. Please try again."
    ELSE "Agent processing failed"

(* A request that is answered at once: nothing is written. *)
Reject(endpoint, current_user, user_id, conversation_id, allowed, response) ==
    /\ request' = [phase |-> "done", endpoint |-> endpoint,
                   current_user |-> current_user, user_id |-> user_id,
                   conversation_id |-> conversation_id, allowed |-> allowed,
                   conversation |-> 0, user_message |-> 0,
                   sequence_number |-> 0, deadline_passed |-> FALSE,
                   assistant_message |-> 0,
                   events |-> IF "done" \in DOMAIN response
                              THEN <<response>> ELSE << >>,
                   response |-> response]
    /\ UNCHANGED <<taskVars, workers, conversations, messages, turn>>

(* The conversation is at hand (convs holds it): the sequence number is    *)
(* computed, the user message committed, and process_message called.       *)
Accept(endpoint, service, current_user, user_id, conversation_id, allowed, convs, conversation) ==
    LET seq == next_sequence_number(messages, conversation)
        msgs == save_message(messages, conversation, "user", seq)
    IN  /\ Len(convs) <= MaxConversations
        /\ Len(messages) + 2 <= MaxMessages
        /\ conversations' = convs
        /\ messages' = msgs
        /\ request' = [phase |-> "agent", endpoint |-> endpoint,
                       current_user |-> current_user, user_id |-> user_id,
                       conversation_id |-> conversation_id,
                       allowed |-> allowed, conversation |-> conversation,
                       user_message |-> Len(msgs), sequence_number |-> seq,
                       deadline_passed |-> FALSE, assistant_message |-> 0,
                       events |-> << >>, response |-> None]
        /\ turn' = Started(service, user_id)
        /\ UNCHANGED <<taskVars, workers>>

(* POST /api/{user_id}/chat from the verdict of the rate limiter for the    *)
(* path user's bucket up to the call of process_message                    *)
chat(current_user, user_id, conversation_id, allowed) ==
    /\ request.phase # "agent"
    /\ ~InProgress(turn)
    /\ IF ~allowed
       THEN Reject("chat", current_user, user_id, conversation_id, allowed,
                   HTTPException(429, "Rate limit exceeded"))
       ELSE IF ~Authorized(current_user, user_id)
       THEN Reject("chat", current_user, user_id, conversation_id, allowed,
                   HTTPError(403, "Permission denied",
                       "URL user_id does not match authenticated user"))
       ELSE IF ~validate_conversation_id(conversation_id)
       THEN Reject("chat", current_user, user_id, conversation_id, allowed,
                   HTTPException(400, "Conversation ID must be positive"))
       ELSE IF Truthy(conversation_id)
       THEN LET loaded == load_conversation(conversations, user_id,
                                            conversation_id.int)
            IN  IF IsHTTPError(loaded)
                THEN Reject("chat", current_user, user_id, conversation_id,
                            allowed, loaded)
                ELSE Accept("chat", "AgentService", current_user, user_id,
                            conversation_id, allowed, conversations,
                            loaded.conversation)
       ELSE Accept("chat", "AgentService", current_user, user_id,
                   conversation_id, allowed,
                   create_conversation(conversations, user_id, now),
                   Len(conversations) + 1)

(* POST /api/{user_id}/chat with the verdict of the rate limiter given:    *)
(* the limiter's buckets are left out of the step                          *)
Chat(current_user, user_id, conversation_id, allowed) ==
    /\ chat(current_user, user_id, conversation_id, allowed)
    /\ buckets' = buckets

(* POST /api/{user_id}/chat/stream up to the call of process_message; the   *)
(* endpoint does not consult the rate limiter                              *)
ChatStream(current_user, user_id, conversation_id) ==
    /\ buckets' = buckets
    /\ request.phase # "agent"
    /\ ~InProgress(turn)
    /\ IF ~Authorized(current_user, user_id)
       THEN Reject("chat_stream", current_user, user_id, conversation_id,
                   TRUE, HTTPException(403, "Permission denied"))
       ELSE IF Truthy(conversation_id)
       THEN LET loaded == stream_load_conversation(conversations, user_id,
                                                   conversation_id.int)
            IN  IF "error" \in DOMAIN loaded
                THEN Reject("chat_stream", current_user, user_id,
                            conversation_id, TRUE, loaded)
                ELSE Accept("chat_stream", "CohereAgentService",
                            current_user, user_id, conversation_id, TRUE,
                            conversations, loaded.conversation)
       ELSE Accept("chat_stream", "CohereAgentService", current_user,
                   user_id, conversation_id, TRUE,
                   create_conversation(conversations, user_id, now),
                   Len(conversations) + 1)

Answered(response) == [request EXCEPT !.phase = "done", !.response = response]

(* chat() after process_message: the assistant message is committed and    *)
(* the reply returned, or the exception answered with 500.                 *)
ChatReturn ==
    /\ request.phase = "agent" /\ request.endpoint = "chat"
    /\ TurnOver
    /\ IF turn.phase = "raised"
       THEN /\ messages' = messages
            /\ conversations' = conversations
            /\ request' = Answered(HTTPError(500,
                              error_message(turn.exception),
                              str(turn.exception)))
       ELSE /\ messages' = save_message(messages, request.conversation,
                               "assistant", request.sequence_number + 1)
            /\ conversations' = update_timestamp(conversations,
                                     request.conversation, now)
            /\ request' = [Answered(
                   [status_code |-> 200,
                    conversation_id |-> request.conversation,
                    message_id |-> Len(messages'),
                    assistant_message |-> turn.result.content,
                    tool_calls |-> turn.result.tool_calls])
                   EXCEPT !.assistant_message = Len(messages')]
    /\ turn' = [phase |-> "idle"]
    /\ UNCHANGED <<buckets, taskVars, workers>>

(* The 30 seconds given to asyncio.wait_for run out while process_message *)
(* is at work.  process_message never hands control back to the event     *)
(* loop (the provider client and time.sleep block, the tool coroutines    *)
(* await nothing that suspends), so the timer of wait_for cannot act       *)
(* before process_message is over, and wait_for then hands on its result   *)
(* or its exception: the TimeoutError branch of chat() is never entered.   *)
DeadlinePasses ==
    /\ request.phase = "agent" /\ request.endpoint = "chat"
    /\ InProgress(turn)
    /\ ~request.deadline_passed
    /\ request' = [request EXCEPT !.deadline_passed = TRUE]
    /\ UNCHANGED <<buckets, taskVars, workers, conversations, messages, turn>>

(* The generator sends one more event; a done event is its last. *)
Emits(r, event) ==
    [r EXCEPT !.events = Append(@, event),
              !.phase = IF event.done THEN "done" ELSE @,
              !.response = IF event.done THEN event ELSE @]
Streaming == request.phase = "agent" /\ request.endpoint = "chat_stream"

(* event_generator() after process_message returned, step by step: the     *)
(* next content event is sent;                                             *)
StreamChunk ==
    /\ Streaming /\ turn.phase = "returned"
    /\ request.assistant_message = 0
    /\ LET events == content_events(turn.result.content)
           k == Len(request.events) + 1
       IN  /\ k \in DOMAIN events
           /\ request' = Emits(request, events[k])
    /\ UNCHANGED <<buckets, taskVars, workers, conversations, messages, turn>>

(* after the last content event the assistant message and the              *)
(* conversation's timestamp are committed;                                 *)
StreamCommit ==
    /\ Streaming /\ turn.phase = "returned"
    /\ request.assistant_message = 0
    /\ Len(request.events) = Len(content_events(turn.result.content))
    /\ messages' = save_message(messages, request.conversation,
                                "assistant", request.sequence_number + 1)
    /\ conversations' = update_timestamp(conversations,
                                         request.conversation, now)
    /\ request' = [request EXCEPT !.assistant_message = Len(messages')]
    /\ UNCHANGED <<buckets, taskVars, workers, turn>>

(* then the terminal event is sent.                                        *)
StreamFinal ==
    /\ Streaming /\ turn.phase = "returned"
    /\ request.assistant_message # 0
    /\ request' = Emits(request,
                       FinalEvent(request.conversation,
                                  request.assistant_message,
                                  turn.result.tool_calls, now))
    /\ turn' = [phase |-> "idle"]
    /\ UNCHANGED <<buckets, taskVars, workers, conversations, messages>>

(* event_generator() after process_message raised: the exception is sent   *)
(* as an error event.                                                      *)
StreamError ==
    /\ Streaming /\ turn.phase = "raised"
    /\ request' = Emits(request, ErrorEvent(str(turn.exception)))
    /\ turn' = [phase |-> "idle"]
    /\ UNCHANGED <<buckets, taskVars, workers, conversations, messages>>

(* event_generator() after process_message as one step: all the events of  *)
(* the stream, with the commit before the terminal event.                  *)
StreamReturn ==
    /\ Streaming /\ TurnOver
    /\ IF turn.phase = "raised"
       THEN /\ messages' = messages
            /\ conversations' = conversations
            /\ request' = Emits(request, ErrorEvent(str(turn.exception)))
       ELSE /\ messages' = save_message(messages, request.conversation,
                               "assistant", request.sequence_number + 1)
            /\ conversations' = update_timestamp(conversations,
                                     request.conversation, now)
            /\ request' =
                   Emits([request EXCEPT
                             !.assistant_message = Len(messages'),
                             !.events = content_events(turn.result.content)],
                         FinalEvent(request.conversation, Len(messages'),
                                    turn.result.tool_calls, now))
    /\ turn' = [phase |-> "idle"]
    /\ UNCHANGED <<buckets, taskVars, workers>>

(* A conversation is soft-deleted: deleted_at is set by a writer outside   *)
(* the request handlers.                                                   *)
SoftDeleteConversation(c) ==
    /\ c \in Stored(conversations)
    /\ conversations[c].deleted_at = None
    /\ conversations' = [conversations EXCEPT ![c].deleted_at = At(now)]
    /\ UNCHANGED <<buckets, taskVars, workers, messages, request, turn>>

(* ---------------------------------------------------------------------- *)
(* SpecChat: two users sending chat requests one after another, to both    *)
(* endpoints, with up to MaxConversations conversations and MaxMessages    *)
(* messages; the provider proposes one call at a time.                     *)
(* ---------------------------------------------------------------------- *)
ConversationIdArgs == {None} \cup {Id(n) : n \in 0..MaxConversations}
ChatProposals ==
    [AgentService |->
        { <<[name |-> "list_tasks", arguments |-> None]>>,
          <<[name |-> "create_task", arguments |-> Json([title |-> Title1])]>>,
          <<[name |-> "nonexistent_tool", arguments |-> Json(NoArguments)]>> },
     CohereAgentService |->
        { <<[name |-> "list_tasks", parameters |-> NoArguments]>>,
          <<[name |-> "nonexistent_tool", parameters |-> NoArguments]>> }]

NextChat ==
    \/ \E current_user \in Users, user_id \in Users,
          conversation_id \in ConversationIdArgs, allowed \in BOOLEAN :
           Chat(current_user, user_id, conversation_id, allowed)
    \/ \E current_user \in Users, user_id \in Users,
          conversation_id \in ConversationIdArgs :
           ChatStream(current_user, user_id, conversation_id)
    \/ FirstCompletion(ChatProposals, {Reply}, OneId)
    \/ ExecuteToolCall(OneId)
    \/ SecondCompletion({Reply})
    \/ ChatReturn
    \/ DeadlinePasses
    \/ StreamReturn
    \/ \E c \in 1..MaxConversations : SoftDeleteConversation(c)

SpecChat == Init /\ [][NextChat]_vars

(* ---------------------------------------------------------------------- *)
(* Properties of the chat endpoints                                        *)
(* ---------------------------------------------------------------------- *)
(* Texts of exceptions raised by the provider client, by json.loads and    *)
(* by the interpreter.                                                     *)
ExceptionTexts ==
    {str(e) : e \in ProviderErrors \cup {JSONDecodeError, TypeError("")}}
ErrorsOf(entries) ==
    {entries[i].result.error :
        i \in {j \in DOMAIN entries : IsErrorResult(entries[j].result)}}
(* The error texts a response shows: detail, X-Error-Details, the error of *)
(* a stream event.                                                         *)
ResponseErrors(r) ==
    (IF "detail" \in DOMAIN r THEN {r.detail} ELSE {})
    \cup (IF "x_error_details" \in DOMAIN r THEN {r.x_error_details} ELSE {})
    \cup (IF "error" \in DOMAIN r THEN {r.error} ELSE {})
RequestAnswered == request.phase = "done"

(* C12: no error message shown to a caller (the error field of a tool      *)
(* result, the body, headers and stream events of a failed chat response)  *)
(* holds the text of the underlying exception.                             *)
C12_ErrorMessagesHideExceptionText ==
    /\ TurnActive => ErrorsOf(turn.executed) \cap ExceptionTexts = {}
    /\ RequestAnswered =>
           ResponseErrors(request.response) \cap ExceptionTexts = {}

MessagesOf(c) == {m \in DOMAIN messages : messages[m].conversation_id = c}
SequenceNumbersOf(c) == {messages[m].sequence_number : m \in MessagesOf(c)}

(* C17: whatever chat turns were made one after another on a conversation  *)
(* (answered, failed or overdue), the sequence numbers of its messages     *)
(* are exactly 1..M, M the number of its messages: no gap, no duplicate.   *)
C17_SequenceNumbersAreContiguous ==
    \A c \in DOMAIN conversations :
        SequenceNumbersOf(c) = 1..Cardinality(MessagesOf(c))

(* A conversation of at least three messages in which a turn that left     *)
(* only its user message is followed by a turn that was answered.          *)
C17_Witness ==
    \E c \in DOMAIN conversations :
        /\ Cardinality(MessagesOf(c)) >= 3
        /\ \E m1 \in MessagesOf(c), m2 \in MessagesOf(c) :
               /\ messages[m1].role = "user" /\ messages[m2].role = "user"
               /\ messages[m2].sequence_number
                      = messages[m1].sequence_number + 1
        /\ \E m \in MessagesOf(c) : messages[m].role = "assistant"

(* A step in which a new request arrives at one of the chat endpoints *)
Arrives == request.phase # "agent" /\ request' # request
RejectedWith(code) ==
    /\ request'.phase = "done"
    /\ request'.response.status_code = code
    /\ conversations' = conversations
    /\ messages' = messages

C19_ConversationLookupAndCreation ==
    [][ (Arrives /\ request'.endpoint = "chat" /\ request'.allowed
            /\ request'.current_user = request'.user_id)
        => LET cid == request'.conversation_id
               u == request'.user_id
               new == Len(conversations) + 1
           IN  /\ (cid # None /\ cid.int > 0) =>
                   /\ (cid.int \notin DOMAIN conversations)
                          => RejectedWith(404)
                   /\ (cid.int \in DOMAIN conversations) =>
                       /\ (conversations[cid.int].user_id # u)
                              => RejectedWith(403)
                       /\ (conversations[cid.int].user_id = u
                              /\ conversations[cid.int].deleted_at # None)
                              => RejectedWith(404)
               /\ (cid = None) =>
                   /\ conversations'
                          = Append(conversations, Conversation(u, now, None))
                   /\ messages' = Append(messages, Message(new, "user", 1))
                   /\ request'.conversation = new ]_vars

(* A request on the caller's own soft-deleted conversation was answered    *)
(* 404.                                                                    *)
C19_Witness ==
    /\ RequestAnswered
    /\ request.endpoint = "chat"
    /\ request.conversation_id # None
    /\ request.conversation_id.int \in DOMAIN conversations
    /\ conversations[request.conversation_id.int].user_id = request.user_id
    /\ conversations[request.conversation_id.int].deleted_at # None
    /\ request.response.status_code = 404

(* The request got as far as calling process_message. *)
Accepted == request.phase \in {"agent", "done"} /\ request.conversation # 0

(* C20: whenever the Orchestrator has been invoked for a request, the      *)
(* user's message is already committed to the conversation, from before    *)
(* the first provider call on, and it stays stored whatever becomes of the *)
(* turn (answer, provider error, deadline).                                *)
C20_UserMessageCommittedFirst ==
    Accepted =>
        /\ request.user_message \in DOMAIN messages
        /\ messages[request.user_message]
               = Message(request.conversation, "user",
                         request.sequence_number)

(* The turn failed and the user's message is the last of its conversation. *)
C20_Witness ==
    /\ RequestAnswered
    /\ request.response.status_code = 500
    /\ request.user_message \in DOMAIN messages
    /\ messages[request.user_message].role = "user"
    /\ \A m \in MessagesOf(request.conversation) :
           messages[m].sequence_number <= request.sequence_number

(* C22: a request to chat() whose process_message was still at work when   *)
(* the 30 seconds ran out (in a provider call, a retry wait or a tool      *)
(* call) is answered 504, and no assistant message is stored for it.       *)
C22_DeadlineEndsTurnWith504 ==
    RequestAnswered /\ request.deadline_passed =>
        /\ request.response.status_code = 504
        /\ Len(messages) = request.user_message

(* ---------------------------------------------------------------------- *)
(* SpecClock: one user's chat requests to both endpoints while the clock   *)
(* runs over 0..MaxClock.                                                  *)
(* ---------------------------------------------------------------------- *)
Caller == 1

(* Time passes between two steps of a handler: a later datetime.utcnow()   *)
(* reads a later instant.                                                  *)
Tick(instants) ==
    /\ now + 1 \in instants
    /\ now' = now + 1
    /\ UNCHANGED <<buckets, tasks, creator, last, chatVars, workers>>

NextClock ==
    \/ \E conversation_id \in ConversationIdArgs :
           Chat(Caller, Caller, conversation_id, TRUE)
    \/ \E conversation_id \in ConversationIdArgs :
           ChatStream(Caller, Caller, conversation_id)
    \/ FirstCompletion(ChatProposals, {Reply}, OneId)
    \/ ExecuteToolCall(OneId)
    \/ SecondCompletion({Reply})
    \/ ChatReturn
    \/ StreamReturn
    \/ Tick(0..MaxClock)

SpecClock == Init /\ [][NextClock]_vars

(* A step in which the handler answers a request it had passed on to       *)
(* process_message                                                         *)
Answers == request.phase = "agent" /\ request'.phase = "done"
NewMessages == {m \in DOMAIN messages' : m \notin DOMAIN messages}

(* C21: an assistant message is stored exactly by the step that answers a  *)
(* request whose process_message returned: that step appends one assistant *)
(* message numbered one above the request's user message and sets the      *)
(* conversation's updated timestamp to the current instant; a step that    *)
(* answers a request whose process_message raised writes nothing, so the   *)
(* conversation keeps only the user's message of that turn; no other step  *)
(* stores an assistant message.                                            *)
C21_AssistantMessageIffTurnSucceeded ==
    [][ /\ (Answers /\ turn.phase = "returned") =>
               /\ messages' = Append(messages,
                      Message(request.conversation, "assistant",
                          messages[request.user_message].sequence_number + 1))
               /\ conversations' =
                      [conversations EXCEPT
                          ![request.conversation].updated_at = now]
               /\ request'.response.status_code = 200
        /\ (Answers /\ turn.phase # "returned") =>
               /\ messages' = messages
               /\ conversations' = conversations
               /\ ResponseErrors(request'.response) # {}
        /\ (~Answers) =>
               \A m \in NewMessages : messages'[m].role = "user" ]_vars

(* A request was answered with an assistant message after the clock had    *)
(* moved on, in a conversation that also holds the lone user message of a  *)
(* turn that failed.                                                       *)
C21_Witness ==
    /\ RequestAnswered
    /\ request.response.status_code = 200
    /\ "message_id" \in DOMAIN request.response
    /\ messages[request.response.message_id].role = "assistant"
    /\ conversations[request.conversation].updated_at = now
    /\ now > 0
    /\ \E m \in MessagesOf(request.conversation) :
           /\ messages[m].role = "user"
           /\ m + 1 \in MessagesOf(request.conversation)
           /\ messages[m + 1].role = "user"

(* ---------------------------------------------------------------------- *)
(* SpecStream: requests to the streaming endpoint for one path user, with  *)
(* completion texts of 0..MaxContent characters and the generator taken    *)
(* step by step.  FairStream adds that the provider client answers or      *)
(* raises (its calls are bounded by the client's own timeouts) and that    *)
(* the server keeps asking the generator for its next event.               *)
(* ---------------------------------------------------------------------- *)
MaxContent == 21    \* characters of a completion text in SpecStream
StreamReplies == {Text(n) : n \in 0..MaxContent}

NextStream ==
    \/ \E current_user \in Users, conversation_id \in ConversationIdArgs :
           ChatStream(current_user, Caller, conversation_id)
    \/ FirstCompletion(ChatProposals, StreamReplies, OneId)
    \/ ExecuteToolCall(OneId)
    \/ SecondCompletion(StreamReplies)
    \/ StreamChunk
    \/ StreamCommit
    \/ StreamFinal
    \/ StreamError

SpecStream == Init /\ [][NextStream]_vars
FairStream ==
    /\ SpecStream
    /\ WF_vars(FirstCompletion(ChatProposals, StreamReplies, OneId))
    /\ WF_vars(ExecuteToolCall(OneId))
    /\ WF_vars(SecondCompletion(StreamReplies))
    /\ WF_vars(StreamChunk)
    /\ WF_vars(StreamCommit)
    /\ WF_vars(StreamFinal)
    /\ WF_vars(StreamError)

(* The request went to the streaming endpoint and was not refused before   *)
(* the stream was opened.                                                  *)
StreamOpened ==
    /\ request.phase \in {"agent", "done"}
    /\ request.endpoint = "chat_stream"
    /\ ~IsHTTPError(request.response)
StreamEnded == StreamOpened /\ request.phase = "done"
RECURSIVE Concatenation(_)
Concatenation(events) ==
    IF events = << >> THEN << >>
    ELSE (IF Head(events).done THEN << >> ELSE Head(events).content)
             \o Concatenation(Tail(events))

(* What holds of the events sent so far, in every state *)
StreamEventsInOrder ==
    StreamOpened =>
        LET events == request.events
        IN  /\ \A k \in DOMAIN events :
                   IF events[k].done
                   THEN k = Len(events) /\ request.phase = "done"
                   ELSE Len(events[k].content) <= chunk_size
            /\ StreamEnded =>
                   /\ Len(events) > 0
                   /\ events[Len(events)].done
            /\ (StreamEnded /\ ~IsErrorResult(events[Len(events)])) =>
                   LET final == events[Len(events)]
                   IN  /\ DOMAIN final = {"status_code", "done",
                               "conversation_id", "message_id", "tool_calls",
                               "timestamp"}
                       /\ final.message_id \in DOMAIN messages
                       /\ messages[final.message_id] =
                              Message(request.conversation, "assistant",
                                      request.sequence_number + 1)

(* What holds of the step that sends the terminal event of a stream whose  *)
(* process_message returned                                                *)
StreamFinalStep ==
    (Streaming /\ turn.phase = "returned" /\ request'.phase = "done") =>
        /\ Concatenation(request'.events) = turn.result.content
        /\ messages' = messages
        /\ request'.response =
               FinalEvent(request.conversation, Len(messages),
                          turn.result.tool_calls, now)

Idle(w) == workers[w].pc \in {"idle", "done"}
Creating == {w \in DOMAIN workers : workers[w].pc = "commit"
                                       /\ workers[w].op = "create_task"}
Running(w, op, user_id, task_id, title, description, seen) ==
    [pc |-> "commit", made |-> workers[w].made, op |-> op,
     user_id |-> user_id, task_id |-> task_id, title |-> title,
     description |-> description, t |-> now, seen |-> seen, result |-> None]
Returned(c, result) == [c EXCEPT !.pc = "done", !.result = result]

(* Mutant: the UPDATE writes every column of the object as it was loaded   *)
(* and changed.                                                            *)
flush_update_whole_row(row, loaded, title, description, t) ==
    [loaded EXCEPT !.title = IF title # None THEN title ELSE @,
                   !.description =
                       IF description # None THEN description ELSE @,
                   !.updated_at = t]

(* session.commit() of update_task: the UPDATE sets the columns whose      *)
(* attribute was assigned a value other than the one loaded, in the row as *)
(* it is stored now.                                                       *)
flush_update(row, loaded, title, description, t) ==
    [row EXCEPT !.title = IF title # None /\ title # loaded.title
                          THEN title ELSE @,
                !.description =
                    IF description # None /\ description # loaded.description
                    THEN description ELSE @,
                !.updated_at = IF t # loaded.updated_at THEN t ELSE @]

(* create_task_internal up to session.add(task) *)
CreateTaskBegins(w, user_id, title, ids) ==
    /\ Idle(w)
    /\ Cardinality(DOMAIN tasks) + Cardinality(Creating) < Cardinality(ids)
    /\ workers' = [workers EXCEPT ![w] =
           Running(w, "create_task", user_id, 0, title, Str(0, 0, 0), None)]
    /\ UNCHANGED <<buckets, taskVars, chatVars>>

(* session.commit(): the row is inserted under a key of the store's choice *)
CreateTaskCommits(w, ids) ==
    /\ workers[w].pc = "commit" /\ workers[w].op = "create_task"
    /\ \E new_id \in FreeIds(ids) :
         LET c == workers[w]
             out == create_task_internal(tasks, c.user_id, c.title,
                                         c.description, new_id, c.t, c.t)
         IN  /\ 0 \notin DOMAIN out.tasks
             /\ tasks' = out.tasks
             /\ creator' = [id \in DOMAIN out.tasks |->
                               IF id \in DOMAIN creator THEN creator[id]
                               ELSE c.user_id]
             /\ workers' = [workers EXCEPT ![w] =
                    IF Succeeded(out.result)
                    THEN [c EXCEPT !.pc = "refresh", !.task_id = new_id,
                                   !.made = @ \cup {new_id}]
                    ELSE Returned(c, out.result)]
    /\ UNCHANGED <<buckets, now, last, chatVars>>

(* update_task_internal up to the assignments: the checks of the           *)
(* arguments and the query for the row                                     *)
UpdateTaskBegins(w, user_id, task_id, title, description) ==
    /\ Idle(w)
    /\ LET out == update_task_internal(tasks, user_id, task_id, title,
                                       description, now)
           c == Running(w, "update_task", user_id, task_id,
                        IF title = None THEN None ELSE strip(title),
                        description,
                        IF Succeeded(out.result) THEN tasks[task_id]
                        ELSE None)
       IN  workers' = [workers EXCEPT ![w] =
               IF Succeeded(out.result) THEN c ELSE Returned(c, out.result)]
    /\ UNCHANGED <<buckets, taskVars, chatVars>>

(* session.commit() of update_task *)
UpdateTaskCommits(w) ==
    /\ workers[w].pc = "commit" /\ workers[w].op = "update_task"
    /\ LET c == workers[w]
       IN  /\ c.task_id \in DOMAIN tasks
           /\ tasks' = Put(tasks, c.task_id,
                           flush_update(tasks[c.task_id], c.seen, c.title,
                                        c.description, c.t))
           /\ workers' = [workers EXCEPT ![w].pc = "refresh"]
    /\ UNCHANGED <<buckets, creator, now, last, chatVars>>

(* session.refresh(task) and the result built from the row *)
ToolReturns(w) ==
    /\ workers[w].pc = "refresh"
    /\ workers[w].task_id \in DOMAIN tasks
    /\ workers' = [workers EXCEPT ![w] =
           Returned(@, [status |-> "success",
                        task |-> TaskDict(@.task_id, tasks[@.task_id])])]
    /\ UNCHANGED <<buckets, taskVars, chatVars>>

(* ---------------------------------------------------------------------- *)
(* SpecCreates: MaxWorkers create_task calls at a time, all under one      *)
(* user's context, on a table that has room for one row more than there   *)
(* are workers.                                                            *)
(* ---------------------------------------------------------------------- *)
RaceIds == 1..(MaxWorkers + 1)
RaceTitles == {Str(0, 1, 0), Str(1, 2, 1)}

NextCreates ==
    \/ \E w \in 1..MaxWorkers, title \in RaceTitles :
           CreateTaskBegins(w, Caller, title, RaceIds)
    \/ \E w \in 1..MaxWorkers : CreateTaskCommits(w, RaceIds)
    \/ \E w \in 1..MaxWorkers : ToolReturns(w)

SpecCreates == Init /\ [][NextCreates]_vars

(* C24: create_task calls that overlap under one user's context all       *)
(* return status "success", each for a task of its own: no two calls made  *)
(* the same row, every row made is in the table, and the table holds as    *)
(* many tasks of the user as there were creations.                         *)
C24_ConcurrentCreatesAllPersist ==
    /\ \A w \in DOMAIN workers :
           (workers[w].pc = "done" /\ workers[w].op = "create_task") =>
               /\ workers[w].result.status = "success"
               /\ workers[w].result.task.id = workers[w].task_id
               /\ workers[w].task_id \in workers[w].made
    /\ \A w1 \in DOMAIN workers, w2 \in DOMAIN workers :
           w1 # w2 => workers[w1].made \cap workers[w2].made = {}
    /\ {i \in DOMAIN tasks : tasks[i].user_id = Caller}
           = UNION {workers[w].made : w \in DOMAIN workers}

(* Every worker has returned from a create_task call that overlapped with  *)
(* the others', and the table holds one row for each.                      *)
C24_Witness ==
    /\ \A w \in DOMAIN workers :
           /\ workers[w].pc = "done" /\ workers[w].op = "create_task"
           /\ workers[w].result.status = "success"
           /\ Cardinality(workers[w].made) = 1
    /\ Cardinality(DOMAIN tasks) = MaxWorkers
    /\ \E w \in DOMAIN workers :
           workers[w].result.task.id # w

(* ---------------------------------------------------------------------- *)
(* SpecUpdates: update_task calls of two workers that overlap on the one   *)
(* row of a table, under the context of the user who created it.  A call   *)
(* sets the title (to the title the row was created with or to another     *)
(* one), the description, or both.                                         *)
(* ---------------------------------------------------------------------- *)
Updaters == {1, 2}
UpdateTitles == {Str(0, 1, 0), Str(0, 2, 0)}
UpdateDescriptions == {Str(0, 3, 0)}

NextUpdates ==
    \/ \E w \in Updaters :
           CreateTaskBegins(w, Caller, Str(0, 1, 0), OneId)
    \/ \E w \in Updaters : CreateTaskCommits(w, OneId)
    \/ \E w \in Updaters, title \in UpdateTitles \cup {None},
          description \in UpdateDescriptions \cup {None} :
           UpdateTaskBegins(w, Caller, 1, title, description)
    \/ \E w \in Updaters : UpdateTaskCommits(w)
    \/ \E w \in Updaters : ToolReturns(w)

SpecUpdates == Init /\ [][NextUpdates]_vars

(* C25: when update_task calls on one task overlap, the commit of each     *)
(* call leaves the task in the table and, field by field (title,           *)
(* description): a field the call did not supply keeps the value stored    *)
(* at that moment, also when another call changed it after this call read  *)
(* the row; a field the call changed becomes the value the call supplied;  *)
(* no commit stores any other value, and the other columns stay as they    *)
(* are.  So each field ends as the last call to write it left it.          *)
C25_FieldLevelLastWriterWins ==
    [][ \A w \in DOMAIN workers :
          (workers[w].pc = "commit" /\ workers[w].op = "update_task"
              /\ workers'[w].pc = "refresh") =>
             LET c == workers[w]
                 r == c.task_id
             IN  /\ r \in DOMAIN tasks /\ r \in DOMAIN tasks'
                 /\ \A f \in {"title", "description"} :
                        /\ (c[f] = None) => tasks'[r][f] = tasks[r][f]
                        /\ tasks'[r][f] \in {c[f], tasks[r][f]}
                        /\ (c[f] # None /\ c[f] # c.seen[f])
                               => tasks'[r][f] = c[f]
                 /\ \A f \in {"completed", "user_id", "created_at"} :
                        tasks'[r][f] = tasks[r][f]
      ]_vars

(* Two calls that each read the row before the other committed have both   *)
(* returned: one set only the title, the other only the description, and   *)
(* the row holds both changes.                                             *)
C25_Witness ==
    \E w1 \in DOMAIN workers, w2 \in DOMAIN workers :
        LET c1 == workers[w1]
            c2 == workers[w2]
        IN  /\ c1.pc = "done" /\ c2.pc = "done"
            /\ c1.op = "update_task" /\ c2.op = "update_task"
            /\ c1.result.status = "success" /\ c2.result.status = "success"
            /\ c1.title # None /\ c1.description = None
            /\ c2.title = None /\ c2.description # None
            /\ c1.seen.description = None /\ c2.seen.title # c1.title
            /\ tasks[1].title = c1.title
            /\ tasks[1].description = c2.description

(* ---------------------------------------------------------------------- *)
(* SpecDelete: one user's chat turns, one after another, on conversations  *)
(* whose messages ConversationService.soft_delete_message may delete.      *)
(* ---------------------------------------------------------------------- *)
(* get_conversation finds the caller's conversation (deleted or not), the  *)
(* message is looked up by id and conversation, and deleted_at is set and  *)
(* committed; otherwise False is returned and nothing is written.          *)
SoftDeleteMessage(message_id, conversation_id, user_id) ==
    /\ conversation_id \in DOMAIN conversations
    /\ conversations[conversation_id].user_id = user_id
    /\ message_id \in DOMAIN messages
    /\ messages[message_id].conversation_id = conversation_id
    /\ messages' = [messages EXCEPT ![message_id].deleted_at = At(now)]
    /\ UNCHANGED <<buckets, taskVars, workers, conversations, request, turn>>

NextDelete ==
    \/ \E conversation_id \in ConversationIdArgs :
           Chat(Caller, Caller, conversation_id, TRUE)
    \/ FirstCompletion(ChatProposals, {Reply}, OneId)
    \/ ExecuteToolCall(OneId)
    \/ SecondCompletion({Reply})
    \/ ChatReturn
    \/ \E message_id \in 1..MaxMessages,
          conversation_id \in 1..MaxConversations :
           SoftDeleteMessage(message_id, conversation_id, Caller)

SpecDelete == Init /\ [][NextDelete]_vars

Highest(numbers) ==
    IF numbers = {} THEN 0
    ELSE CHOOSE n \in numbers : \A k \in numbers : k <= n

(* C26: a message stored by the chat flow is numbered one above the        *)
(* highest sequence number of the messages its conversation already has,   *)
(* deleted ones included (1 when it has none), so its number is greater    *)
(* than every number already in the conversation.                          *)
C26_NewMessageNumberedAboveAllExisting ==
    [][\A m \in NewMessages :
         messages'[m].sequence_number =
             Highest(SequenceNumbersOf(messages'[m].conversation_id)) + 1]_vars

(* ---------------------------------------------------------------------- *)
(* SpecOverlap: chat() requests of one user that overlap.  A request      *)
(* runs in two transactions with the call of process_message between      *)
(* them: the first counts the messages and commits the user message, the   *)
(* second commits the assistant message under the number computed by the   *)
(* first.  Each transaction is one step; nothing in chat() keeps another   *)
(* request on the same conversation from running between the two.  The     *)
(* provider answers in plain text or fails, so the task table is left      *)
(* alone, and a request that is rejected writes nothing and is left out.   *)
(* ---------------------------------------------------------------------- *)
AtAgent(conversation, sequence_number) ==
    [pc |-> "agent", conversation |-> conversation,
     sequence_number |-> sequence_number]
TurnsAtAgent == {w \in DOMAIN workers : workers[w].pc = "agent"}

(* chat() up to the call of process_message, for a request that passes    *)
(* the checks                                                              *)
ChatTurnBegins(w, user_id, conversation_id) ==
    /\ Idle(w)
    /\ Len(messages) + Cardinality(TurnsAtAgent) + 2 <= MaxMessages
    /\ ~(~validate_conversation_id(conversation_id))
    /\ LET loaded == IF Truthy(conversation_id)
                     THEN load_conversation(conversations, user_id,
                                            conversation_id.int)
                     ELSE [conversation |-> Len(conversations) + 1]
           convs == IF Truthy(conversation_id) THEN conversations
                    ELSE create_conversation(conversations, user_id, now)
       IN  /\ ~IsHTTPError(loaded)
           /\ Len(convs) <= MaxConversations
           /\ LET seq == next_sequence_number(messages, loaded.conversation)
              IN  /\ conversations' = convs
                  /\ messages' = save_message(messages, loaded.conversation,
                                              "user", seq)
                  /\ workers' = [workers EXCEPT
                                    ![w] = AtAgent(loaded.conversation, seq)]
    /\ UNCHANGED <<buckets, taskVars, request, turn>>

(* chat() after process_message: the assistant message is committed under *)
(* the number after the user message's (ok), or the exception is answered *)
(* with 500 and nothing is written.                                        *)
ChatTurnEnds(w, ok) ==
    /\ workers[w].pc = "agent"
    /\ IF ok
       THEN /\ messages' = save_message(messages, workers[w].conversation,
                               "assistant", workers[w].sequence_number + 1)
            /\ conversations' = update_timestamp(conversations,
                                     workers[w].conversation, now)
       ELSE UNCHANGED <<conversations, messages>>
    /\ workers' = [workers EXCEPT ![w].pc = "done"]
    /\ UNCHANGED <<buckets, taskVars, request, turn>>

NextOverlap ==
    \/ \E w \in 1..MaxWorkers, conversation_id \in ConversationIdArgs :
           ChatTurnBegins(w, Caller, conversation_id)
    \/ \E w \in 1..MaxWorkers, ok \in BOOLEAN : ChatTurnEnds(w, ok)

SpecOverlap == Init /\ [][NextOverlap]_vars

(* C27: when chat turns on one conversation overlap, no two messages of    *)
(* the conversation get the same sequence number and no number is skipped. *)
C27_OverlappingTurnsNumberWithoutCollision ==
    \A c \in DOMAIN conversations :
        /\ \A m1 \in MessagesOf(c), m2 \in MessagesOf(c) :
               m1 # m2 =>
                   messages[m1].sequence_number # messages[m2].sequence_number
        /\ SequenceNumbersOf(c) = 1..Highest(SequenceNumbersOf(c))

(* ---------------------------------------------------------------------- *)
(* Properties of the course of one turn (SpecTurn)                         *)
(* ---------------------------------------------------------------------- *)
(* Where a turn stands: FIRST_CALL is "first_call", EXECUTING "executing", *)
(* SECOND_CALL "second_call", DONE "returned" or "raised".                 *)
TurnInOrder ==
    /\ Len(turn.requests) <= 2
    /\ Len(turn.executed) <= Len(turn.proposal)
    /\ \A i \in DOMAIN turn.executed :
           turn.executed[i].tool = turn.proposal[i].name
    /\ (turn.phase = "first_call") =>
           turn.requests = << >> /\ turn.executed = << >>
    /\ (turn.phase = "executing") =>
           Len(turn.requests) = 1 /\ Len(turn.executed) < Len(turn.proposal)
    /\ (turn.phase = "second_call") =>
           Len(turn.requests) = 1 /\ Len(turn.executed) = Len(turn.proposal)
    /\ (turn.phase = "returned") =>
           \/ Len(turn.requests) = 1 /\ turn.proposal = << >>
           \/ /\ Len(turn.requests) = 2 /\ turn.proposal # << >>
              /\ Len(turn.executed) = Len(turn.proposal)
TurnStep ==
    turn' # turn =>
        \/ turn'.phase = "first_call" /\ ~InProgress(turn)
        \/ turn'.phase = "idle" /\ TurnOver
        \/ /\ turn.phase = "first_call"
           /\ turn'.phase \in {"executing", "returned", "raised"}
        \/ /\ turn.phase = "executing"
           /\ \/ /\ turn'.phase \in {"executing", "second_call"}
                 /\ Len(turn'.executed) = Len(turn.executed) + 1
              \/ turn'.phase = "raised" /\ turn'.executed = turn.executed
        \/ /\ turn.phase = "second_call"
           /\ turn'.phase \in {"returned", "raised"}

(* C28: a turn goes from the first call either straight to its end or      *)
(* through the execution of the proposed calls and one second call to its  *)
(* end, never back: the calls are executed once, each one a call the first *)
(* response proposed, at most two completion requests are made, and the    *)
(* second one offers the provider no tools.                                *)
C28_OneRoundOfToolsThenCallWithoutTools ==
    /\ [](TurnActive =>
            /\ TurnInOrder
            /\ (Len(turn.requests) = 2) => ~turn.requests[2].tools)
    /\ [][TurnStep]_vars

(* A step in which the first response is plain text *)
PlainTextAnswer == turn.phase = "first_call" /\ turn'.phase = "returned"

(* C29: when the first response proposes no tool call, process_message     *)
(* returns that response's text with tool_calls null after this one        *)
(* completion request, no call is executed, and from its entry to its      *)
(* return the task table stays as it was; a turn that ends with nothing    *)
(* proposed has ended this way.                                            *)
C29_PlainTextAnswerIsFinalReply ==
    [][/\ (turn.phase = "first_call" \/ turn'.phase = "first_call") =>
              tasks' = tasks
       /\ PlainTextAnswer =>
              /\ turn'.result.content = turn'.reply
              /\ turn'.result.tool_calls = None
              /\ turn'.completions = 1 /\ Len(turn'.requests) = 1
              /\ turn'.proposal = << >> /\ turn'.executed = << >>
       /\ (turn' # turn /\ turn'.phase = "returned"
             /\ turn'.proposal = << >>) => PlainTextAnswer]_vars

(* A turn on a table that holds a task has ended with the provider's text  *)
(* and no tool call.                                                       *)
C29_Witness ==
    /\ turn.phase = "returned"
    /\ turn.proposal = << >> /\ turn.result.tool_calls = None
    /\ turn.result.content = Reply
    /\ DOMAIN tasks # {}

(* The whole proposal as one assistant entry, and one tool entry for each  *)
(* executed call, in the order of execution                                *)
ProposalEntry(proposal) ==
    AssistantEntry([i \in DOMAIN proposal |-> ProposedCall(i, proposal[i])])
ResultEntries(executed) ==
    [i \in DOMAIN executed |-> ToolEntry(i, executed[i].result)]

(* C30: the prompt of AgentService's second completion request is the      *)
(* prompt of the first one, then one assistant entry with all the proposed *)
(* calls, then one tool entry per executed call, in the order of           *)
(* execution, with the call's id and its result as JSON text.              *)
C30_SecondPromptIsProposalThenResults ==
    (TurnActive /\ turn.service = "AgentService" /\ Len(turn.requests) = 2) =>
        /\ Len(turn.executed) >= 1
        /\ turn.requests[2].messages =
               turn.requests[1].messages
                   \o <<ProposalEntry(turn.proposal)>>
                   \o ResultEntries(turn.executed)

(* ---------------------------------------------------------------------- *)
(* SpecRetry: process_message with the first completion call taken one     *)
(* attempt at a time.  The turn counts the attempts made and keeps the     *)
(* exceptions of the failed ones and the seconds slept between attempts.   *)
(* ---------------------------------------------------------------------- *)
max_retries == 3
retry_delay == 1
TransientKeywords ==
    {"timeout", "connection", "rate_limit", "429", "503", "502"}

(* Mutant: every failure counts as transient. *)
Transient_always(e) == TRUE

(* any(keyword in error_str for keyword in [...]) *)
Transient(e) == e.mentions \cap TransientKeywords # {}

(* The seconds slept before the attempt after the n-th one: retry_delay   *)
(* is doubled after every sleep.                                           *)
RECURSIVE DelayAfter(_)
DelayAfter(n) == IF n = 1 THEN retry_delay ELSE 2 * DelayAfter(n - 1)

(* AgentService retries inside range(max_retries); CohereAgentService      *)
(* makes its call once.                                                    *)
Retries(t, e) ==
    /\ t.service = "AgentService"
    /\ t.attempts + 1 < max_retries
    /\ Transient(e)

(* One attempt of the first completion call: the provider proposes tool    *)
(* calls, or answers with text, or the attempt fails and is repeated after *)
(* a sleep, or fails for good.                                             *)
FirstAttempt(proposals, replies, ids) ==
    /\ turn.phase = "first_call"
    /\ LET attempt == turn.attempts + 1
           called == [turn EXCEPT !.attempts = attempt,
                                  !.completions = 1,
                                  !.requests = <<FirstRequest(turn)>>]
       IN  \/ \E p \in proposals[turn.service] :
                 /\ Fits(p, ids)
                 /\ turn' = [called EXCEPT !.phase = "executing",
                                           !.proposal = p]
           \/ \E content \in replies : turn' = Returns(called, content, None)
           \/ \E e \in ProviderErrors :
                 LET failed == [called EXCEPT !.failures = Append(@, e)]
                 IN  turn' = IF Retries(turn, e)
                             THEN [failed EXCEPT
                                      !.waits = Append(@, DelayAfter(attempt))]
                             ELSE Raises(failed, e)
    /\ UNCHANGED <<buckets, taskVars, workers, conversations, messages, request>>

RetryProposals ==
    [AgentService |-> SeqsUpTo(OpenAICalls, 1),
     CohereAgentService |-> SeqsUpTo(CohereCalls, 1)]

NextRetry ==
    \/ \E service \in Services, u \in Users : ProcessMessage(service, u)
    \/ FirstAttempt(RetryProposals, {Reply}, OneId)
    \/ ExecuteToolCall(OneId)
    \/ SecondCompletion({Reply})

SpecRetry == Init /\ [][NextRetry]_vars

FailedAtFirstCall == turn.phase = "raised" /\ turn.requests # << >>
                         /\ turn.proposal = << >>

(* C31: the first completion call is attempted at most three times in a    *)
(* turn; every attempt but the first follows a failure with a transient    *)
(* signature and a sleep, of 1 second after the first attempt and 2 after  *)
(* the second; a failure without such a signature ends the turn at once,   *)
(* without a sleep after it, and so does any failure of the third attempt. *)
C31_FirstCallRetriedOnTransientFailuresOnly ==
    TurnActive =>
        /\ turn.attempts <= 3
        /\ Len(turn.waits) <= 2
        /\ \A i \in DOMAIN turn.waits :
               /\ turn.waits[i] = (IF i = 1 THEN 1 ELSE 2)
               /\ turn.failures[i].mentions \cap TransientKeywords # {}
        /\ (turn.attempts > 0) => turn.attempts >= Len(turn.failures)
        /\ IF FailedAtFirstCall
           THEN LET e == turn.failures[turn.attempts]
                IN  /\ Len(turn.failures) = turn.attempts
                    /\ Len(turn.waits) = turn.attempts - 1
                    /\ turn.exception = e
                    /\ e.mentions \cap TransientKeywords = {} \/
                           turn.attempts = 3 \/
                           turn.service = "CohereAgentService"
                    /\ (e.mentions \cap TransientKeywords = {}
                          /\ turn.attempts = 1) => turn.waits = << >>
           ELSE /\ Len(turn.waits) = Len(turn.failures)
                /\ (turn.phase # "first_call") =>
                       turn.attempts = Len(turn.failures) + 1
                /\ (turn.phase = "first_call") =>
                       turn.attempts = Len(turn.failures)

(* The third attempt of a turn has failed after two sleeps. *)
C31_Witness ==
    /\ FailedAtFirstCall
    /\ turn.attempts = 3
    /\ turn.waits = <<1, 2>>

(* A step taken by a turn that has executed its calls *)
AfterToolCalls == turn.phase = "second_call" /\ turn' # turn
FailedAtSecondCall == turn.phase = "raised" /\ Len(turn.requests) = 2

(* C32: the second completion request is made once: the step after the     *)
(* tool calls ends the turn, with the reply or with the provider's         *)
(* exception whatever its signature, nothing sleeps and nothing is asked   *)
(* again, and the task table and the record of the executed calls stay as  *)
(* the calls left them.                                                    *)
C32_SecondCallMadeOnceFailurePropagates ==
    [][AfterToolCalls =>
          /\ turn'.phase \in {"returned", "raised"}
          /\ Len(turn'.requests) = 2 /\ turn'.completions = 2
          /\ turn'.waits = turn.waits /\ turn'.failures = turn.failures
          /\ turn'.executed = turn.executed
          /\ tasks' = tasks /\ creator' = creator
          /\ (turn'.phase = "raised") => turn'.exception \in ProviderErrors]_vars

(* The second call failed with a transient signature in a turn that had    *)
(* created a task, and the task is stored.                                 *)
C32_Witness ==
    /\ FailedAtSecondCall
    /\ turn.exception.mentions # {}
    /\ \E i \in DOMAIN turn.executed :
           /\ turn.executed[i].tool = "create_task"
           /\ "task" \in DOMAIN turn.executed[i].result
           /\ turn.executed[i].result.task.id \in DOMAIN tasks

(* ---------------------------------------------------------------------- *)
(* TaskAgent.process_message (agents/task_agent.py), the third             *)
(* orchestrator of the repository.  Its tool_executor is the caller's; it  *)
(* is taken to be AgentService.execute_tool for the turn's user.           *)
(* ---------------------------------------------------------------------- *)
NoneTypeError ==
    Exception("TypeError",
              "the JSON object must be str, bytes or bytearray, not NoneType",
              {})
ToolCallData(id, name, arguments, result) ==
    [id |-> id, name |-> name, arguments |-> arguments, result |-> result]
ToolCallFailure(id, name, arguments, e) ==
    [id |-> id, name |-> name, arguments |-> arguments, error |-> str(e)]

(* One round of TaskAgent's loop over assistant_message.tool_calls:        *)
(* json.loads of the payload and the executor run inside one try, and any  *)
(* exception becomes an entry with the exception's text.                   *)
TaskAgent_tool_call(store, user_id, id, tool_call, new_id, t) ==
    LET tool_name == tool_call.name
        tool_args == tool_call.arguments
    IN  IF tool_args = None
        THEN Executed(ToolCallFailure(id, tool_name, tool_args,
                                      NoneTypeError), store)
        ELSE IF ~Decodes(tool_args)
        THEN Executed(ToolCallFailure(id, tool_name, tool_args,
                                      JSONDecodeError), store)
        ELSE LET args_dict == json_loads(tool_args)
                 out == AgentService_execute_tool(store, user_id, tool_name,
                                                  args_dict, new_id, t)
             IN  IF IsRaised(out)
                 THEN Executed(ToolCallFailure(id, tool_name, tool_args,
                                               out.raised), out.tasks)
                 ELSE Executed(ToolCallData(id, tool_name, args_dict,
                                            out.result), out.tasks)

(* After the loop TaskAgent appends one assistant entry with all the       *)
(* calls and one tool entry per call.                                      *)
TaskAgent_append(prompt, tool_calls_data) ==
    prompt
        \o <<AssistantEntry(
               [i \in DOMAIN tool_calls_data |->
                   [id |-> tool_calls_data[i].id, type |-> "function",
                    function |->
                        [name |-> tool_calls_data[i].name,
                         arguments |-> Json(tool_calls_data[i].arguments)]]])>>
        \o [i \in DOMAIN tool_calls_data |->
               ToolEntry(tool_calls_data[i].id,
                         IF "result" \in DOMAIN tool_calls_data[i]
                         THEN tool_calls_data[i].result
                         ELSE [error |-> tool_calls_data[i].error])]

(* The next proposed call of a TaskAgent turn; after the last one the      *)
(* prompt is extended and the second call is due.                          *)
TaskAgentExecutes(ids) ==
    /\ turn.phase = "executing"
    /\ turn.service = "TaskAgent"
    /\ \E new_id \in FreeIds(ids) :
         LET i == Len(turn.executed) + 1
             out == TaskAgent_tool_call(tasks, turn.user_id, i,
                                        turn.proposal[i], new_id, now)
         IN  /\ 0 \notin DOMAIN out.tasks
             /\ tasks' = out.tasks
             /\ creator' = [id \in DOMAIN out.tasks |->
                               IF id \in DOMAIN creator THEN creator[id]
                               ELSE turn.user_id]
             /\ turn' = [turn EXCEPT
                           !.executed = Append(@, out.entry),
                           !.prompt = IF i = Len(turn.proposal)
                                      THEN TaskAgent_append(@,
                                               Append(turn.executed, out.entry))
                                      ELSE @,
                           !.phase = IF i = Len(turn.proposal)
                                     THEN "second_call" ELSE "executing"]
    /\ UNCHANGED <<buckets, now, last, conversations, messages, request, workers>>

(* ---------------------------------------------------------------------- *)
(* SpecDecode: turns of AgentService and of TaskAgent in which the         *)
(* provider proposes one call whose argument payload is null, empty, "{}"  *)
(* or not JSON.                                                            *)
(* ---------------------------------------------------------------------- *)
Payloads == {None, Str(0, 0, 0), Json(NoArguments), Garbled}
DecodeCalls ==
    {[name |-> n, arguments |-> a] :
        n \in {"list_tasks", "create_task"}, a \in Payloads}
        \cup {[name |-> "create_task", arguments |-> Json([title |-> Title1])]}
DecodeProposals ==
    [AgentService |-> {<<c>> : c \in DecodeCalls},
     TaskAgent |-> {<<c>> : c \in DecodeCalls}]

NextDecode ==
    \/ \E service \in {"AgentService", "TaskAgent"}, u \in Users :
           ProcessMessage(service, u)
    \/ FirstCompletion(DecodeProposals, {Reply}, OneId)
    \/ ExecuteToolCall(OneId)
    \/ TaskAgentExecutes(OneId)
    \/ SecondCompletion({Reply})

SpecDecode == Init /\ [][NextDecode]_vars

EmptyPayload(tool_call) ==
    tool_call.arguments = None \/ tool_call.arguments = Str(0, 0, 0)
NextCall == turn.proposal[Len(turn.executed) + 1]
ArgumentsOf(entry) ==
    IF "parameters" \in DOMAIN entry THEN entry.parameters
    ELSE entry.arguments

(* C33: a proposed call whose argument payload is null or the empty text   *)
(* is executed with the empty argument object: the step neither raises nor *)
(* records an error of decoding, the executed call's arguments are {},     *)
(* and for list_tasks its result is the one a call with {} gives.          *)
C33_EmptyPayloadIsEmptyArguments ==
    [][(turn.phase = "executing" /\ turn' # turn /\ EmptyPayload(NextCall)) =>
          /\ turn'.phase # "raised"
          /\ LET entry == turn'.executed[Len(turn'.executed)]
             IN  /\ "error" \notin DOMAIN entry
                 /\ ArgumentsOf(entry) = NoArguments
                 /\ (NextCall.name = "list_tasks") =>
                        entry.result =
                            AgentService_execute_tool(tasks, turn.user_id,
                                "list_tasks", NoArguments, 0, now).result]_vars

(* ---------------------------------------------------------------------- *)
(* SpecHistory: chat() requests of one user that overlap, with the load    *)
(* of the history as a step of its own: the user message is committed in   *)
(* one transaction and the history selected in the next one.  Rows are     *)
(* appended in the order of their commits, and created_at follows that     *)
(* order; a row stands for its content.                                    *)
(* ---------------------------------------------------------------------- *)
history_limit == 20

(* select ... where conversation_id, deleted_at is NULL, order by          *)
(* created_at desc, limit 20; then reversed: the rows, oldest first.       *)
history_messages(msgs, conversation_id) ==
    LET Kept(m) == /\ msgs[m].conversation_id = conversation_id
                   /\ msgs[m].deleted_at = None
        rows == SelectSeq([m \in 1..Len(msgs) |-> m], Kept)
    IN  IF Len(rows) <= history_limit THEN rows
        ELSE SubSeq(rows, Len(rows) - history_limit + 1, Len(rows))
format_conversation_history(msgs, rows) ==
    [i \in DOMAIN rows |-> [role |-> msgs[rows[i]].role, content |-> rows[i]]]

(* conversation_history[:-1] *)
ExcludeLast(history) == SubSeq(history, 1, Len(history) - 1)

Saved(conversation, sequence_number, user_message) ==
    [pc |-> "saved", conversation |-> conversation,
     sequence_number |-> sequence_number, user_message |-> user_message]
TurnsUnderWay == {w \in DOMAIN workers : workers[w].pc \in {"saved", "agent"}}

(* chat() up to the commit of the user message *)
ChatSavesUserMessage(w, user_id, conversation_id) ==
    /\ Idle(w)
    /\ Len(messages) + Cardinality(TurnsUnderWay) + 2 <= MaxMessages
    /\ ~(~validate_conversation_id(conversation_id))
    /\ LET loaded == IF Truthy(conversation_id)
                     THEN load_conversation(conversations, user_id,
                                            conversation_id.int)
                     ELSE [conversation |-> Len(conversations) + 1]
           convs == IF Truthy(conversation_id) THEN conversations
                    ELSE create_conversation(conversations, user_id, now)
       IN  /\ ~IsHTTPError(loaded)
           /\ Len(convs) <= MaxConversations
           /\ LET seq == next_sequence_number(messages, loaded.conversation)
              IN  /\ conversations' = convs
                  /\ messages' = save_message(messages, loaded.conversation,
                                              "user", seq)
                  /\ workers' = [workers EXCEPT
                                    ![w] = Saved(loaded.conversation, seq,
                                                 Len(messages'))]
    /\ UNCHANGED <<buckets, taskVars, request, turn>>

(* chat() from the select of the history to the call of process_message,  *)
(* which gets the window without its last entry                            *)
ChatLoadsHistory(w) ==
    /\ workers[w].pc = "saved"
    /\ LET rows == history_messages(messages, workers[w].conversation)
           history == format_conversation_history(messages, rows)
       IN  workers' = [workers EXCEPT
                          ![w] = [pc |-> "agent",
                                  conversation |-> workers[w].conversation,
                                  sequence_number |->
                                      workers[w].sequence_number,
                                  user_message |-> workers[w].user_message,
                                  conversation_history |->
                                      ExcludeLast(history)]]
    /\ UNCHANGED <<buckets, taskVars, conversations, messages, request, turn>>

NextHistory ==
    \/ \E w \in 1..MaxWorkers, conversation_id \in ConversationIdArgs :
           ChatSavesUserMessage(w, Caller, conversation_id)
    \/ \E w \in 1..MaxWorkers : ChatLoadsHistory(w)
    \/ \E w \in 1..MaxWorkers, ok \in BOOLEAN : ChatTurnEnds(w, ok)

SpecHistory == Init /\ [][NextHistory]_vars

(* The rows of a conversation that were stored before row m, oldest first *)
Preceding(m) ==
    LET Before(k) == /\ k < m
                     /\ messages[k].conversation_id =
                            messages[m].conversation_id
                     /\ messages[k].deleted_at = None
    IN  SelectSeq([k \in 1..Len(messages) |-> k], Before)

(* C34: the history handed to process_message holds, oldest first, the     *)
(* messages of the conversation stored before the user message of the      *)
(* request (the last 20 of them), and never that user message itself,      *)
(* also when requests on the conversation overlap.                         *)
C34_HistoryPrecedesCurrentMessage ==
    \A w \in DOMAIN workers :
        (workers[w].pc = "agent") =>
            LET own == workers[w].user_message
                history == workers[w].conversation_history
                before == Preceding(own)
            IN  /\ \A i \in DOMAIN history : history[i].content # own
                /\ Len(history) <= history_limit
                /\ history =
                       format_conversation_history(messages,
                           IF Len(before) <= history_limit THEN before
                           ELSE SubSeq(before,
                                       Len(before) - history_limit + 1,
                                       Len(before)))

(* ---------------------------------------------------------------------- *)
(* The retention job (jobs/cleanup_conversations.py).  Each function runs  *)
(* in one session and commits once; its returned dict is kept in last.     *)
(* ---------------------------------------------------------------------- *)
retention_days == 90
cutoff_date(t) == t - retention_days

(* Mutant: a conversation deleted exactly 90 days ago is selected too. *)
conversations_to_delete_inclusive(convs, t) == {c \in Stored(convs) : convs[c].deleted_at # None /\ convs[c].deleted_at.at <= cutoff_date(t)}

(* select(Conversation).where(deleted_at is not None,                      *)
(*                            deleted_at < cutoff_date)                    *)
conversations_to_delete(convs, t) ==
    {c \in Stored(convs) :
        /\ convs[c].deleted_at # None
        /\ convs[c].deleted_at.at < cutoff_date(t)}
(* select(Message).where(conversation_id == conversation.id), for each    *)
(* of the conversations                                                    *)
messages_of(msgs, cs) ==
    {m \in Stored(msgs) : msgs[m].conversation_id \in cs}
session_delete(table, rows) ==
    [i \in DOMAIN table |-> IF i \in rows THEN None ELSE table[i]]

cleanup_old_conversations(dry_run) ==
    LET cs == conversations_to_delete(conversations, now)
        ms == messages_of(messages, cs)
    IN  /\ conversations' = IF dry_run THEN conversations
                            ELSE session_delete(conversations, cs)
        /\ messages' = IF dry_run THEN messages
                       ELSE session_delete(messages, ms)
        /\ last' = [op |-> "cleanup_old_conversations",
                    result |-> [conversations_deleted |-> Cardinality(cs),
                                messages_deleted |-> Cardinality(ms),
                                cutoff_date |-> isoformat(cutoff_date(now)),
                                dry_run |-> dry_run]]
        /\ UNCHANGED <<buckets, tasks, creator, now, request, turn, workers>>

cleanup_orphaned_messages ==
    LET orphaned_messages ==
            {m \in Stored(messages) :
                messages[m].conversation_id \notin Stored(conversations)}
    IN  /\ messages' = session_delete(messages, orphaned_messages)
        /\ last' = [op |-> "cleanup_orphaned_messages",
                    result |-> [orphaned_messages_deleted |->
                                    Cardinality(orphaned_messages)]]
        /\ UNCHANGED <<buckets, tasks, creator, now, conversations, request, turn,
                       workers>>

(* Days go by between two requests; a turn takes seconds. *)
DaysPass(instants) ==
    /\ request.phase # "agent"
    /\ \E t \in instants : t > now /\ now' = t
    /\ UNCHANGED <<buckets, tasks, creator, last, chatVars, workers>>

(* ---------------------------------------------------------------------- *)
(* SpecCleanup: one user's chat turns, conversations being soft-deleted,   *)
(* days going by (the clock counts days) and the two functions of the job. *)
(* ---------------------------------------------------------------------- *)
CleanupDays == {0, 1, 91}
NoProposals == [AgentService |-> {}, CohereAgentService |-> {}]

NextCleanup ==
    \/ \E conversation_id \in {None, Id(1)} :
           Chat(Caller, Caller, conversation_id, TRUE)
    \/ FirstCompletion(NoProposals, {Reply}, OneId)
    \/ ChatReturn
    \/ \E c \in 1..MaxConversations : SoftDeleteConversation(c)
    \/ DaysPass(CleanupDays)
    \/ \E dry_run \in BOOLEAN : cleanup_old_conversations(dry_run)
    \/ cleanup_orphaned_messages

SpecCleanup == Init /\ [][NextCleanup]_vars

JobRuns == last' # last /\ last'.op = "cleanup_old_conversations"
(* The conversations soft-deleted more than 90 days before now *)
Expired ==
    {c \in Stored(conversations) :
        /\ conversations[c].deleted_at # None
        /\ now - conversations[c].deleted_at.at > 90}
ExpiredMessages ==
    {m \in Stored(messages) : messages[m].conversation_id \in Expired}
NoOrphanedMessage ==
    \A m \in Stored(messages) :
        messages[m].conversation_id \in Stored(conversations)

(* C35: a run of cleanup_old_conversations removes the conversations that  *)
(* were soft-deleted more than 90 days ago and every message of theirs,    *)
(* keeps every other row as it is, and reports the two numbers; with       *)
(* dry_run it reports the same numbers and changes no row; and no stored   *)
(* message ever refers to a conversation that is not stored.               *)
C35_CleanupPurgesExpiredConversationsOnly ==
    /\ []NoOrphanedMessage
    /\ [][JobRuns =>
            /\ last'.result.conversations_deleted = Cardinality(Expired)
            /\ last'.result.messages_deleted = Cardinality(ExpiredMessages)
            /\ IF last'.result.dry_run
               THEN conversations' = conversations /\ messages' = messages
               ELSE /\ Stored(conversations') =
                           Stored(conversations) \ Expired
                    /\ Stored(messages') = Stored(messages) \ ExpiredMessages
                    /\ \A c \in Stored(conversations') :
                           conversations'[c] = conversations[c]
                    /\ \A m \in Stored(messages') :
                           messages'[m] = messages[m]]_vars

(* The job has removed one conversation with its messages and kept         *)
(* another one that was soft-deleted exactly 90 days before.               *)
C35_Witness ==
    /\ last.op = "cleanup_old_conversations"
    /\ ~last.result.dry_run
    /\ last.result.conversations_deleted = 1
    /\ last.result.messages_deleted >= 2
    /\ \E c \in Stored(conversations) :
           /\ conversations[c].deleted_at # None
           /\ now - conversations[c].deleted_at.at = 90

(* ---------------------------------------------------------------------- *)
(* SpecStored: the four paths that write a task's title and description,   *)
(* the create_task and update_task tools and the REST create and update    *)
(* endpoints, on a table of one row with titles and descriptions around    *)
(* the limits; the clock stands still.                                     *)
(* ---------------------------------------------------------------------- *)

(* Pydantic's check of a TaskCreate body: the title is required, lengths   *)
(* are those of the raw strings                                            *)
TaskCreateValid(title, description) ==
    /\ title \notin {Unset, None}
    /\ len(title) >= 1 /\ len(title) <= MAX_TITLE
    /\ description \notin {Unset, None} => len(description) <= MAX_DESCRIPTION

create_task(store, user_id, title, description, new_id, t1, t2) ==
    IF ~TaskCreateValid(title, description)
    THEN Outcome(HTTPException(422, "Unprocessable Entity"), store)
    ELSE IF Falsy(title) \/ len(strip(title)) = 0
    THEN Outcome(HTTPException(400,
             "Title is required and cannot be empty"), store)
    ELSE LET task == Task(title,
                          IF description = Unset THEN None ELSE description,
                          FALSE, user_id, t1, t2)
         IN  Outcome([status_code |-> 201,
                      task |-> TaskResponse(new_id, task)],
                     Put(store, new_id, task))

RestCreateTask(u, title, description, ids, instants) ==
    \E new_id \in FreeIds(ids), d1 \in Ticks(now, instants) :
      \E d2 \in Ticks(now + d1, instants) :
        LET out == create_task(tasks, u, title, description,
                               new_id, now + d1, now + d1 + d2)
            ok == out.result.status_code = 201
        IN  /\ ok => new_id # 0
            /\ now' = IF ok THEN now + d1 + d2 ELSE now
            /\ Call("rest_create_task", u, IF ok THEN new_id ELSE 0,
                    title, description, out)

RestTitles == (TitleArgs \ {None}) \cup {Unset}
RestDescriptions == (DescriptionArgs \ {None}) \cup {Unset}

NextStored ==
    \E u \in Users :
        \/ \E title \in TitleArgs, description \in DescriptionArgs :
               CallCreateTask(u, title, description, OneId, {0})
        \/ \E id \in OneIdArgs, title \in TitleArgs,
              description \in DescriptionArgs :
               CallUpdateTask(u, id, title, description, {0})
        \/ \E title \in RestTitles, description \in RestDescriptions :
               RestCreateTask(u, title, description, OneId, {0})
        \/ \E id \in OneIdArgs, title \in RestTitles,
              description \in RestDescriptions :
               RestUpdateTask(u, id, title, description, Unset, {0})
        \/ \E id \in OneIdArgs : CallDeleteTask(u, id)

SpecStored == Init /\ [][NextStored]_vars

Trimmed(s) == s.lead = 0 /\ s.trail = 0

(* C36: in every reachable state every stored task has a title that is     *)
(* trimmed (no leading or trailing whitespace), non-empty and at most 200  *)
(* characters long, and a description of at most 2000 characters,          *)
(* whichever of the two tools or the two REST endpoints wrote it.          *)
C36_StoredTitlesTrimmedAndWithinLimits ==
    \A i \in DOMAIN tasks :
        /\ tasks[i].title # None
        /\ Trimmed(tasks[i].title)
        /\ len(tasks[i].title) >= 1
        /\ len(tasks[i].title) <= MAX_TITLE
        /\ tasks[i].description # None =>
               len(tasks[i].description) <= MAX_DESCRIPTION

(* ---------------------------------------------------------------------- *)
(* SpecToggles: mark_complete calls of MaxWorkers workers that overlap on  *)
(* the one row of a table, under the context of the user who created it.   *)
(* A call has a session of its own; its steps are the query for the row    *)
(* and the assignments, the commit, and the refresh with the result.       *)
(* ---------------------------------------------------------------------- *)

(* session.commit() of mark_complete: the UPDATE sets completed to the     *)
(* inverse of the value the call loaded, in the row as it is stored now    *)
flush_toggle(row, loaded, t) ==
    [row EXCEPT !.completed = ~loaded.completed,
                !.updated_at = IF t # loaded.updated_at THEN t ELSE @]

(* mark_complete_internal up to the assignments: the query for the row *)
MarkCompleteBegins(w, user_id, task_id) ==
    /\ Idle(w)
    /\ LET task == SelectOwned(tasks, user_id, task_id)
           c == [pc |-> "commit", made |-> workers[w].made,
                 op |-> "mark_complete", user_id |-> user_id,
                 task_id |-> task_id, t |-> now, seen |-> task,
                 before |-> None, result |-> None]
       IN  workers' = [workers EXCEPT ![w] =
               IF task # None THEN c
               ELSE Returned(c, ErrorResult("Task not found"))]
    /\ UNCHANGED <<buckets, taskVars, chatVars>>

(* session.commit() of mark_complete; before is the flag the commit found  *)
(* in the row, left there by the call that committed before this one       *)
MarkCompleteCommits(w) ==
    /\ workers[w].pc = "commit" /\ workers[w].op = "mark_complete"
    /\ LET c == workers[w]
       IN  /\ c.task_id \in DOMAIN tasks
           /\ tasks' = Put(tasks, c.task_id,
                           flush_toggle(tasks[c.task_id], c.seen, c.t))
           /\ workers' = [workers EXCEPT ![w] =
                  [c EXCEPT !.pc = "refresh",
                            !.before = Bool(tasks[c.task_id].completed)]]
    /\ UNCHANGED <<buckets, creator, now, last, chatVars>>

(* session.refresh(task) and the result built from the row *)
MarkCompleteReturns(w) ==
    /\ workers[w].pc = "refresh" /\ workers[w].op = "mark_complete"
    /\ workers[w].task_id \in DOMAIN tasks
    /\ workers' = [workers EXCEPT ![w] =
           Returned(@, [status |-> "success",
                        action |-> IF tasks[@.task_id].completed
                                   THEN "marked_complete"
                                   ELSE "marked_incomplete",
                        task |-> TaskDict(@.task_id, tasks[@.task_id])])]
    /\ UNCHANGED <<buckets, taskVars, chatVars>>

CreateTaskReturns(w) ==
    /\ workers[w].pc = "refresh" /\ workers[w].op = "create_task"
    /\ ToolReturns(w)

NextToggles ==
    \/ \E w \in 1..MaxWorkers :
           CreateTaskBegins(w, Caller, Str(0, 1, 0), OneId)
    \/ \E w \in 1..MaxWorkers : CreateTaskCommits(w, OneId)
    \/ \E w \in 1..MaxWorkers : CreateTaskReturns(w)
    \/ \E w \in 1..MaxWorkers, id \in OneIdArgs :
           MarkCompleteBegins(w, Caller, id)
    \/ \E w \in 1..MaxWorkers : MarkCompleteCommits(w)
    \/ \E w \in 1..MaxWorkers : MarkCompleteReturns(w)

SpecToggles == Init /\ [][NextToggles]_vars

(* C37: mark_complete's read-invert-write of the completion flag is atomic *)
(* with respect to other mark_complete calls on the same task: however the *)
(* calls interleave, every commit of a call leaves the flag the inverse of *)
(* the flag the commit before it left (so k successful calls leave the     *)
(* original flag inverted k times), and the flag a call reports is the     *)
(* inverse of the flag left by the call serialized before it.              *)
C37_MarkCompleteIsAtomic ==
    [][ \A w \in DOMAIN workers :
          /\ (workers[w].pc = "commit" /\ workers[w].op = "mark_complete"
                 /\ workers'[w].pc = "refresh") =>
                tasks'[workers[w].task_id].completed
                    = ~tasks[workers[w].task_id].completed
          /\ (workers[w].pc = "refresh" /\ workers[w].op = "mark_complete"
                 /\ workers'[w].pc = "done") =>
                workers'[w].result.task.completed = ~workers[w].before.bool
      ]_vars

(* ---------------------------------------------------------------------- *)
(* The rate limiter of middleware/rate_limit.py: one token bucket for each *)
(* user id it is asked about, made full at the first question.  The clock  *)
(* counts seconds.                                                         *)
(* ---------------------------------------------------------------------- *)
requests_per_minute == 60
burst_size == 10
capacity == requests_per_minute + burst_size
refill_rate == requests_per_minute \div 60      \* tokens per second

TokenBucket(t) == [tokens |-> capacity, last_refill |-> t]

(* TokenBucket.consume(1): refill for the time elapsed, then take a token  *)
(* if there is one                                                         *)
consume(bucket, t) ==
    LET refilled == bucket.tokens + (t - bucket.last_refill) * refill_rate
        tokens == IF refilled > capacity THEN capacity ELSE refilled
    IN  IF tokens >= 1
        THEN [allowed |-> TRUE,
              bucket |-> [tokens |-> tokens - 1, last_refill |-> t]]
        ELSE [allowed |-> FALSE,
              bucket |-> [tokens |-> tokens, last_refill |-> t]]

(* RateLimiter.check_rate_limit: self.buckets is a defaultdict *)
check_rate_limit(bs, user_id, t) ==
    LET bucket == IF user_id \in DOMAIN bs THEN bs[user_id]
                  ELSE TokenBucket(t)
        consumed == consume(bucket, t)
    IN  [allowed |-> consumed.allowed,
         buckets |-> Put(bs, user_id, consumed.bucket)]

(* POST /api/{user_id}/chat from its first statement: the rate limiter is  *)
(* asked about the path user, then the handler goes on with the verdict    *)
RateLimitedChat(current_user, user_id, conversation_id) ==
    LET checked == check_rate_limit(buckets, user_id, now)
    IN  /\ buckets' = checked.buckets
        /\ chat(current_user, user_id, conversation_id, checked.allowed)

(* ---------------------------------------------------------------------- *)
(* SpecLimit: chat requests of two users that name one user in the path,   *)
(* each turn answered without tool calls, while seconds pass.              *)
(* ---------------------------------------------------------------------- *)
NextLimit ==
    \/ \E current_user \in Users :
           RateLimitedChat(current_user, Caller, None)
    \/ FirstCompletion(NoProposals, {Reply}, OneId)
    \/ ChatReturn
    \/ Tick(0..MaxClock)

SpecLimit == Init /\ [][NextLimit]_vars

(* A step in which chat() answers 403 because the path user is not the     *)
(* token's user                                                            *)
RejectedForIdentity ==
    /\ request.phase # "agent"
    /\ request'.phase = "done"
    /\ request'.endpoint = "chat"
    /\ request'.response.status_code = 403
    /\ ~Authorized(request'.current_user, request'.user_id)
    /\ now' = now

(* C38: a user's rate-limit bucket is consumed only by that user's own     *)
(* authenticated requests: a chat request rejected with 403 because the    *)
(* path user_id does not match the JWT subject leaves the bucket of the    *)
(* user named in the path, and of every other user, unchanged.             *)
C38_RejectedRequestLeavesBucketsUnchanged ==
    [][RejectedForIdentity => buckets' = buckets]_vars

(* ---------------------------------------------------------------------- *)
(* SpecForeign: process_message of either service, called for either user, *)
(* with proposals of up to MaxCalls calls whose arguments may hold keys    *)
(* that are no parameter of the tool: user_id, ctx.                        *)
(* ---------------------------------------------------------------------- *)
ForeignArguments ==
    { [title |-> Title1],
      [title |-> Title1, user_id |-> 2],
      [task_id |-> 1],
      [task_id |-> 1, user_id |-> 2],
      [task_id |-> 1, ctx |-> [user_id |-> 2]] }
ForeignNames(arguments) ==
    IF "title" \in DOMAIN arguments THEN {"create_task"}
    ELSE {"delete_task", "mark_complete"}
ForeignOpenAICalls ==
    { [name |-> n, arguments |-> Json(a)] :
          <<n, a>> \in UNION {ForeignNames(a) \X {a} : a \in ForeignArguments} }
ForeignCohereCalls ==
    { [name |-> n, parameters |-> a] :
          <<n, a>> \in UNION {ForeignNames(a) \X {a} : a \in ForeignArguments} }
ForeignProposals ==
    [AgentService |-> SeqsUpTo(ForeignOpenAICalls, MaxCalls),
     CohereAgentService |-> SeqsUpTo(ForeignCohereCalls, MaxCalls)]

NextForeign ==
    \/ \E service \in Services, u \in Users : ProcessMessage(service, u)
    \/ FirstCompletion(ForeignProposals, {Reply}, OneId)
    \/ ExecuteToolCall(OneId)
    \/ SecondCompletion({Reply})

SpecForeign == Init /\ [][NextForeign]_vars

(* The keys of the next proposed call that are no parameter of its tool *)
Parameters(name) == Required(name) \cup Defaulted(name)
ProposedArguments(tool_call) ==
    IF "parameters" \in DOMAIN tool_call THEN tool_call.parameters
    ELSE json_loads(tool_call.arguments)
ExtraKeys(tool_call) ==
    DOMAIN ProposedArguments(tool_call) \ Parameters(tool_call.name)
CallExecutes == turn.phase = "executing" /\ turn' # turn

(* C39: arguments supplied by the provider never change whose data a tool  *)
(* call touches: a proposed call whose arguments hold a key that is no     *)
(* parameter of the tool (user_id, ctx) is recorded with an error result   *)
(* and changes no task; the user id of the turn's context stays the same   *)
(* for the calls after it; and every call changes or removes only rows of  *)
(* that user and makes rows only for that user.                            *)
C39_ProviderArgumentsCannotChangeTheUser ==
    [][ CallExecutes =>
          /\ turn'.user_id = turn.user_id
          /\ \A id \in DOMAIN tasks :
                 tasks[id].user_id # turn.user_id =>
                     id \in DOMAIN tasks' /\ tasks'[id] = tasks[id]
          /\ \A id \in DOMAIN tasks' \ DOMAIN tasks :
                 tasks'[id].user_id = turn.user_id
          /\ (ExtraKeys(NextCall) # {}) =>
                 /\ turn'.phase # "raised"
                 /\ Len(turn'.executed) = Len(turn.executed) + 1
                 /\ IsErrorResult(turn'.executed[Len(turn'.executed)].result)
                 /\ tasks' = tasks
      ]_vars

(* A turn of user 1 has executed a call on user 2's task that named user 2 *)
(* in its arguments and then the same call without the extra key: the      *)
(* first is an error, the second found no such task, the task is there.    *)
C39_Witness ==
    /\ turn.phase \in {"second_call", "returned"}
    /\ turn.user_id = 1
    /\ Len(turn.executed) = 2
    /\ "user_id" \in DOMAIN turn.executed[1].parameters
    /\ turn.executed[1].tool = "delete_task"
    /\ IsErrorResult(turn.executed[1].result)
    /\ turn.executed[2].tool = "delete_task"
    /\ turn.executed[2].parameters = [task_id |-> 1]
    /\ turn.executed[2].result = NotFound
    /\ 1 \in DOMAIN tasks /\ tasks[1].user_id = 2

(* The executed calls of the turn that created, changed or deleted a task *)
MutatingTools == {"create_task", "update_task", "mark_complete", "delete_task"}
Mutations ==
    {i \in DOMAIN turn.executed :
        /\ turn.executed[i].tool \in MutatingTools
        /\ "status" \in DOMAIN turn.executed[i].result
        /\ turn.executed[i].result.status = "success"}

(* C40: every task mutation performed through chat is auditable: when a    *)
(* tool call executed during a chat turn created, changed or deleted a     *)
(* task, the step that answers the request stores an assistant message in  *)
(* the request's conversation, and the tool_calls record the endpoint      *)
(* writes into that message (the one process_message returned) holds that  *)
(* call with its parameters and its result.                                *)
C40_MutationsAreAudited ==
    [][ (Answers /\ Mutations # {}) =>
          /\ \E m \in NewMessages :
                 /\ messages'[m].role = "assistant"
                 /\ messages'[m].conversation_id = request.conversation
          /\ IF turn.phase = "returned" /\ turn.result.tool_calls # None
             THEN \A i \in Mutations :
                      \E j \in DOMAIN turn.result.tool_calls.list :
                          turn.result.tool_calls.list[j] = turn.executed[i]
             ELSE FALSE
      ]_vars
====
